---- MODULE Spec2Model ----
(***************************************************************************)
(* A model of the AUTD3 emulator's field-slice pipeline:                   *)
(*   - App::handle_autd   (autd3-emulator/src/main.rs): the command feed   *)
(*     applied to the source array, and the change mask it returns;        *)
(*   - App::run           one tick: event, feed, UI, synchronization, draw;*)
(*   - AcousticFiledSliceViewer::update (acoustic_field_slice_viewer.rs):  *)
(*     the GPU resources rebuilt for a change mask.                        *)
(*                                                                         *)
(* f32 values are carried as their IEEE-754 bit patterns (non-negative     *)
(* floats only: for those the order of the patterns is the order of the    *)
(* values).  0 is +0.0.                                                    *)
(***************************************************************************)
EXTENDS Integers, Sequences, FiniteSets, TLC

(***************************************************************************)
(* f32 arithmetic used by the drive encoding                               *)
(***************************************************************************)

\* std::f32::consts::PI doubled: 2.0 * PI = 6.2831855 = 0x40C90FDB
TWO_PI_BITS == 1086918619

\* 1.0f32 = 0x3F800000
ONE_BITS == 1065353216

\* biased exponent and 24-bit significand of a positive normal f32
F32Exp(b) == b \div 8388608

F32Man(b) == 8388608 + (b % 8388608)

F32Pack(e, m) == e * 8388608 + (m - 8388608)

\* round to nearest, ties to even, of a significand m with a guard bit and
\* a sticky flag; a carry out of 24 bits renormalises
F32Round(e, m, guard, sticky) ==
  LET up == guard = 1 /\ (sticky \/ m % 2 = 1)
      m1 == IF up THEN m + 1 ELSE m
  IN IF m1 = 16777216 THEN F32Pack(e + 1, 8388608) ELSE F32Pack(e, m1)

\* k steps of binary long division of the remainder r by d, extending q
RECURSIVE LongDiv(_, _, _, _)
LongDiv(k, r, d, q) ==
  IF k = 0 THEN <<q, r>>
  ELSE IF 2 * r >= d THEN LongDiv(k - 1, 2 * r - d, d, 2 * q + 1)
       ELSE LongDiv(k - 1, 2 * r, d, 2 * q)

\* x / y on f32 (x, y not negative; x / +0.0 = +inf, +0.0 / +0.0 = NaN)
F32Div(x, y) ==
  IF y = 0 THEN (IF x = 0 THEN 2143289344 ELSE 2139095040)
  ELSE IF x = 0 THEN 0
  ELSE LET mx == F32Man(x)
           my == F32Man(y)
           k  == IF mx >= my THEN 24 ELSE 25
           qr == LongDiv(k, mx % my, my, mx \div my)
           q  == qr[1]
       IN F32Round(151 - k + F32Exp(x) - F32Exp(y), q \div 2, q % 2, qr[2] # 0)

\* x * 255.0 on f32 (x positive normal or +0.0); the 32-bit product of the
\* significand with 255 is kept as hi * 256 + lo
F32Mul255(x) ==
  IF x = 0 THEN 0
  ELSE LET mx == F32Man(x)
           a  == mx \div 256
           b  == mx % 256
           hi == a * 255 + (b * 255) \div 256
           lo == (b * 255) % 256
       IN IF hi >= 8388608
          THEN F32Round(F32Exp(x) + 8, hi, lo \div 128, lo % 128 # 0)
          ELSE F32Round(F32Exp(x) + 7, 2 * hi + lo \div 128, (lo \div 64) % 2,
                        lo % 64 # 0)

\* `x as u8` for a non-negative f32: truncation toward zero, saturating
AsU8(x) ==
  IF x = 0 THEN 0
  ELSE LET e == F32Exp(x)
           m == F32Man(x)
       IN IF e >= 150 THEN 255
          ELSE IF 150 - e > 24 THEN 0
          ELSE LET v == m \div (2 ^ (150 - e))
               IN IF v > 255 THEN 255 ELSE v

\* source.phase = 2.0 * PI * (1.0 - (phase as f32 / 255.0)), for each byte
\* 0..255 (entry phase + 1), evaluated in f32
GainPhaseBits ==
  <<
     1086918619, 1086866945, 1086815272, 1086763598, 1086711924, 1086660250, 1086608577, 1086556903,
     1086505229, 1086453556, 1086401882, 1086350208, 1086298535, 1086246861, 1086195187, 1086143513,
     1086091840, 1086040166, 1085988492, 1085936819, 1085885145, 1085833471, 1085781798, 1085730124,
     1085678450, 1085626776, 1085575103, 1085523429, 1085471755, 1085420082, 1085368408, 1085316734,
     1085265061, 1085213387, 1085161713, 1085110039, 1085058366, 1085006692, 1084955018, 1084903345,
     1084851671, 1084799997, 1084748323, 1084696650, 1084644976, 1084593302, 1084541629, 1084489955,
     1084438281, 1084386608, 1084334934, 1084283260, 1084231586, 1084179913, 1084128239, 1084076565,
     1084024892, 1083973218, 1083921544, 1083869871, 1083818197, 1083766523, 1083714849, 1083663176,
     1083611502, 1083559828, 1083508155, 1083456480, 1083404807, 1083353133, 1083301460, 1083249785,
     1083198112, 1083146438, 1083094765, 1083043091, 1082991418, 1082939743, 1082888070, 1082836396,
     1082784723, 1082733048, 1082681375, 1082629701, 1082578028, 1082526353, 1082474681, 1082423006,
     1082371333, 1082319659, 1082267986, 1082216311, 1082164638, 1082095496, 1081992150, 1081888801,
     1081785455, 1081682106, 1081578760, 1081475411, 1081372065, 1081268716, 1081165371, 1081062022,
     1080958676, 1080855327, 1080751981, 1080648632, 1080545286, 1080441937, 1080338591, 1080235242,
     1080131897, 1080028548, 1079925202, 1079821853, 1079718507, 1079615158, 1079511812, 1079408463,
     1079305117, 1079201768, 1079098423, 1078995074, 1078891728, 1078788379, 1078685033, 1078581684,
     1078478337, 1078374989, 1078271642, 1078168294, 1078064947, 1077961599, 1077858252, 1077754905,
     1077651557, 1077548210, 1077444862, 1077341515, 1077238168, 1077134820, 1077031473, 1076928125,
     1076824778, 1076721431, 1076618083, 1076514736, 1076411388, 1076308041, 1076204694, 1076101346,
     1075997999, 1075894651, 1075791304, 1075687957, 1075584609, 1075481262, 1075377914, 1075274567,
     1075171220, 1075067872, 1074964525, 1074861177, 1074757830, 1074654483, 1074551135, 1074447788,
     1074344440, 1074241093, 1074137745, 1074034398, 1073931051, 1073827703, 1073706888, 1073500193,
     1073293498, 1073086803, 1072880108, 1072673414, 1072466719, 1072260024, 1072053329, 1071846634,
     1071639940, 1071433245, 1071226550, 1071019855, 1070813160, 1070606466, 1070399771, 1070193076,
     1069986381, 1069779686, 1069572991, 1069366297, 1069159602, 1068952907, 1068746212, 1068539517,
     1068332823, 1068126128, 1067919433, 1067712738, 1067506043, 1067299349, 1067092654, 1066885959,
     1066679264, 1066472569, 1066265875, 1066059180, 1065852485, 1065645790, 1065439095, 1065111585,
     1064698195, 1064284806, 1063871416, 1063458026, 1063044637, 1062631247, 1062217858, 1061804468,
     1061391078, 1060977689, 1060564299, 1060150909, 1059737520, 1059324130, 1058910741, 1058497351,
     1058083961, 1057670572, 1057257182, 1056722977, 1055896198, 1055069418, 1054242639, 1053415860,
     1052589081, 1051762301, 1050935522, 1050108743, 1049281964, 1048334369, 1046680810, 1045027252,
     1043373693, 1041720135, 1039945761, 1036638644, 1033331527, 1028250036, 1019861428, 0
  >>

GainAmpBits ==
  <<
     0, 1003084129, 1011472486, 1016553747, 1019860090, 1023165932, 1024940661, 1026592891,
     1028244683, 1029895974, 1031546698, 1032497790, 1033322495, 1034146823, 1034970744, 1035794226,
     1036617238, 1037439750, 1038261729, 1039083144, 1039903964, 1040455776, 1040865544, 1041274969,
     1041684034, 1042092724, 1042501024, 1042908917, 1043316389, 1043723424, 1044130005, 1044536120,
     1044941751, 1045346884, 1045751503, 1046155591, 1046559135, 1046962120, 1047364528, 1047766346,
     1048167557, 1048568148, 1048772052, 1048971703, 1049171021, 1049369998, 1049568627, 1049766901,
     1049964810, 1050162349, 1050359508, 1050556282, 1050752663, 1050948642, 1051144214, 1051339369,
     1051534101, 1051728403, 1051922267, 1052115686, 1052308651, 1052501157, 1052693196, 1052884760,
     1053075843, 1053266436, 1053456534, 1053646127, 1053835210, 1054023775, 1054211815, 1054399323,
     1054586291, 1054772714, 1054958582, 1055143890, 1055328631, 1055512797, 1055696382, 1055879378,
     1056061778, 1056243577, 1056424766, 1056605338, 1056785289, 1056964608, 1057053950, 1057142970,
     1057231665, 1057320032, 1057408066, 1057495766, 1057583127, 1057670147, 1057756821, 1057843147,
     1057929121, 1058014740, 1058100002, 1058184902, 1058269436, 1058353604, 1058437400, 1058520823,
     1058603868, 1058686532, 1058768813, 1058850706, 1058932211, 1059013321, 1059094036, 1059174352,
     1059254266, 1059333775, 1059412875, 1059491564, 1059569839, 1059647697, 1059725135, 1059802149,
     1059878737, 1059954897, 1060030625, 1060105919, 1060180774, 1060255189, 1060329162, 1060402688,
     1060475766, 1060548393, 1060620564, 1060692279, 1060763534, 1060834327, 1060904654, 1060974513,
     1061043902, 1061112818, 1061181258, 1061249220, 1061316701, 1061383699, 1061450210, 1061516233,
     1061581765, 1061646804, 1061711346, 1061775390, 1061838934, 1061901974, 1061964508, 1062026534,
     1062088050, 1062149054, 1062209542, 1062269512, 1062328964, 1062387893, 1062446299, 1062504177,
     1062561528, 1062618348, 1062674634, 1062730386, 1062785601, 1062840277, 1062894411, 1062948002,
     1063001048, 1063053547, 1063105496, 1063156894, 1063207738, 1063258027, 1063307759, 1063356933,
     1063405544, 1063453594, 1063501079, 1063547998, 1063594348, 1063640129, 1063685338, 1063729973,
     1063774034, 1063817519, 1063860425, 1063902750, 1063944494, 1063985655, 1064026231, 1064066221,
     1064105624, 1064144436, 1064182658, 1064220288, 1064257325, 1064293766, 1064329611, 1064364858,
     1064399506, 1064433554, 1064467000, 1064499842, 1064532081, 1064563714, 1064594741, 1064625159,
     1064654969, 1064684169, 1064712757, 1064740733, 1064768096, 1064794843, 1064820976, 1064846493,
     1064871392, 1064895672, 1064919334, 1064942375, 1064964795, 1064986594, 1065007769, 1065028322,
     1065048249, 1065067552, 1065086229, 1065104280, 1065121703, 1065138499, 1065154666, 1065170204,
     1065185112, 1065199390, 1065213037, 1065226053, 1065238438, 1065250189, 1065261309, 1065271795,
     1065281647, 1065290866, 1065299451, 1065307400, 1065314715, 1065321395, 1065327440, 1065332848,
     1065337621, 1065341758, 1065345259, 1065348123, 1065350351, 1065351943, 1065352898, 1065353216
  >>

(***************************************************************************)
(* Bounds of the model                                                     *)
(***************************************************************************)

\* transducers in the array, at most (over all geometries of a command)
MaxSources == 2

\* geometries in one Geometries command, at most (each holds a transducer)
MaxGeom == MaxSources

\* entries of a Gain's phase array and of its amplitude array, at most
MaxGain == MaxSources

\* largest setting.log_max drawn
MaxLog == 2

\* x coordinates a geometry's first transducer is placed at
Origins == {0}

\* the duty and phase bytes Gain commands carry
AmpBytes == {0, 85}

PhaseBytes == {5}

(***************************************************************************)
(* UpdateFlag (acoustic_field_viewer::view::UpdateFlag, a bitflags type):  *)
(* a mask is the set of its flags                                          *)
(***************************************************************************)

UpdateFlagAll ==
  {"UPDATE_SLICE_SIZE", "UPDATE_SLICE_POS", "INIT_SOURCE", "UPDATE_SOURCE_DRIVE",
   "UPDATE_COLOR_MAP", "UPDATE_WAVENUM", "UPDATE_CAMERA_POS", "UPDATE_SOURCE_ALPHA"}

UpdateFlagEmpty == {}

(***************************************************************************)
(* SoundSource and the command feed                                        *)
(***************************************************************************)

SoundSource(pos, dir, amp, phase) ==
  [pos |-> pos, dir |-> dir, amp |-> amp, phase |-> phase]

\* geometry.make_autd_transducers(): the transducers of one device, in
\* order, with no drive yet
make_autd_transducers(g) ==
  [i \in 1..g.num |-> SoundSource(<<g.origin + (i - 1), 0, 0>>, <<0, 0, 1>>, 0, 0)]

\* for geometry in geometries { for trans in ... { sources.push(trans) } }
RECURSIVE PushAll(_, _)
PushAll(sources, geometries) ==
  IF geometries = <<>> THEN sources
  ELSE PushAll(sources \o make_autd_transducers(Head(geometries)), Tail(geometries))

Min(a, b) == IF a <= b THEN a ELSE b

\* source.amp = (amp as f32 / 510.0 * PI).sin()
GainAmp(amp) == GainAmpBits[amp + 1]

\* source.phase = 2.0 * PI * (1.0 - (phase as f32 / 255.0))
GainPhase(phase) == GainPhaseBits[phase + 1]

\* App::log: push_back, then pop_front while longer than log_max
RECURSIVE PopFront(_, _)
PopFront(buf, max) ==
  IF Len(buf) > max THEN PopFront(Tail(buf), max) ELSE buf

\* a log that drops with pop_back
Log_PopBack(st, msg) ==
  IF st.log_enable
  THEN [st EXCEPT !.log_buf = SubSeq(Append(st.log_buf, msg), 1,
                                     Min(Len(st.log_buf) + 1, st.log_max))]
  ELSE st

Log(st, msg) ==
  IF st.log_enable
  THEN [st EXCEPT !.log_buf = PopFront(Append(st.log_buf, msg), st.log_max)]
  ELSE st

\* update_flag = bits instead of update_flag |= bits
Raise_Assign(st, bits) == [st EXCEPT !.update_flag = bits]

Raise(st, bits) == [st EXCEPT !.update_flag = st.update_flag \cup bits]

\* a Geometries that raises INIT_SOURCE alone
GeometriesArm_NoDrive(st, d) ==
  Raise(Log([st EXCEPT !.sources = PushAll(<<>>, d.geometries)], "geometry"),
        {"INIT_SOURCE"})

\* a Geometries without self.sources.clear()
GeometriesArm_Append(st, d) ==
  Raise(Log([st EXCEPT !.sources = PushAll(st.sources, d.geometries)], "geometry"),
        {"INIT_SOURCE", "UPDATE_SOURCE_DRIVE"})

\* The arms of the match in App::handle_autd.  st holds the fields of App the
\* feed touches and the update_flag local of handle_autd.
GeometriesArm(st, d) ==
  Raise(Log([st EXCEPT !.sources = PushAll(<<>>, d.geometries)], "geometry"),
        {"INIT_SOURCE", "UPDATE_SOURCE_DRIVE"})

\* zip(phases, amps) zipped with sources: the shortest of the three ends it
GainZipLen(st, d) == Min(Min(Len(d.phases), Len(d.amps)), Len(st.sources))

\* a Gain that rejects arrays shorter than the source array
GainArm_Strict(st, d) ==
  LET k == GainZipLen(st, d)
      upd == [i \in 1..Len(st.sources) |->
                [st.sources[i] EXCEPT !.amp = GainAmp(d.amps[i]),
                                      !.phase = GainPhase(d.phases[i])]]
  IN IF k < Len(st.sources) THEN st
     ELSE Raise(Log([st EXCEPT !.sources = upd], "gain"), {"UPDATE_SOURCE_DRIVE"})

\* a Gain that silences the sources it has no entry for
GainArm_ZeroRest(st, d) ==
  LET k == GainZipLen(st, d)
      upd == [i \in 1..Len(st.sources) |->
                IF i <= k
                THEN [st.sources[i] EXCEPT !.amp = GainAmp(d.amps[i]),
                                           !.phase = GainPhase(d.phases[i])]
                ELSE [st.sources[i] EXCEPT !.amp = 0]]
  IN Raise(Log([st EXCEPT !.sources = upd], "gain"), {"UPDATE_SOURCE_DRIVE"})

\* a Gain that raises no bit
GainArm_Quiet(st, d) ==
  LET k == GainZipLen(st, d)
      upd == [i \in 1..Len(st.sources) |->
                IF i <= k
                THEN [st.sources[i] EXCEPT !.amp = GainAmp(d.amps[i]),
                                           !.phase = GainPhase(d.phases[i])]
                ELSE st.sources[i]]
  IN Log([st EXCEPT !.sources = upd], "gain")

GainArm(st, d) ==
  LET k == GainZipLen(st, d)
      upd == [i \in 1..Len(st.sources) |->
                IF i <= k
                THEN [st.sources[i] EXCEPT !.amp = GainAmp(d.amps[i]),
                                           !.phase = GainPhase(d.phases[i])]
                ELSE st.sources[i]]
  IN Raise(Log([st EXCEPT !.sources = upd], "gain"), {"UPDATE_SOURCE_DRIVE"})

\* a Clear that empties the array: self.sources.clear()
ClearArm_Empty(st, d) ==
  Raise(Log([st EXCEPT !.sources = <<>>, !.modulation = "None",
                       !.sequence = "None", !.delay_offset = "None"], "clear"),
        {"UPDATE_SOURCE_DRIVE"})

\* a Clear that zeroes the amplitudes only
ClearArm_KeepPhase(st, d) ==
  LET upd == [i \in 1..Len(st.sources) |-> [st.sources[i] EXCEPT !.amp = 0]]
  IN Raise(Log([st EXCEPT !.sources = upd, !.modulation = "None",
                          !.sequence = "None", !.delay_offset = "None"], "clear"),
           {"UPDATE_SOURCE_DRIVE"})

ClearArm(st, d) ==
  LET upd == [i \in 1..Len(st.sources) |->
                [st.sources[i] EXCEPT !.amp = 0, !.phase = 0]]
  IN Raise(Log([st EXCEPT !.sources = upd, !.modulation = "None",
                          !.sequence = "None", !.delay_offset = "None"], "clear"),
           {"UPDATE_SOURCE_DRIVE"})

\* a Pause that silences a source the way Clear does, phase included
PauseArm_ZeroPhase(st, d) ==
  LET saved == [i \in 1..Len(st.sources) |-> st.sources[i].amp]
      upd == [i \in 1..Len(st.sources) |-> [st.sources[i] EXCEPT !.amp = 0, !.phase = 0]]
  IN Raise(Log([st EXCEPT !.last_amp = saved, !.sources = upd], "pause"),
           {"UPDATE_SOURCE_DRIVE"})

\* a Pause without self.last_amp.clear()
PauseArm_NoClear(st, d) ==
  LET saved == [i \in 1..Len(st.sources) |-> st.sources[i].amp]
      upd == [i \in 1..Len(st.sources) |-> [st.sources[i] EXCEPT !.amp = 0]]
  IN Raise(Log([st EXCEPT !.last_amp = st.last_amp \o saved, !.sources = upd], "pause"),
           {"UPDATE_SOURCE_DRIVE"})

PauseArm(st, d) ==
  LET saved == [i \in 1..Len(st.sources) |-> st.sources[i].amp]
      upd == [i \in 1..Len(st.sources) |-> [st.sources[i] EXCEPT !.amp = 0]]
  IN Raise(Log([st EXCEPT !.last_amp = saved, !.sources = upd], "pause"),
           {"UPDATE_SOURCE_DRIVE"})

\* a Resume without self.last_amp.clear()
ResumeArm_NoClear(st, d) ==
  LET k == Min(Len(st.sources), Len(st.last_amp))
      upd == [i \in 1..Len(st.sources) |->
                IF i <= k THEN [st.sources[i] EXCEPT !.amp = st.last_amp[i]]
                ELSE st.sources[i]]
  IN Raise(Log([st EXCEPT !.sources = upd], "resume"), {"UPDATE_SOURCE_DRIVE"})

ResumeArm(st, d) ==
  LET k == Min(Len(st.sources), Len(st.last_amp))
      upd == [i \in 1..Len(st.sources) |->
                IF i <= k THEN [st.sources[i] EXCEPT !.amp = st.last_amp[i]]
                ELSE st.sources[i]]
  IN Raise(Log([st EXCEPT !.sources = upd, !.last_amp = <<>>], "resume"),
           {"UPDATE_SOURCE_DRIVE"})

\* a Modulation that raises the drive bit
ModulationArm_Raise(st, d) ==
  Raise(Log([st EXCEPT !.modulation = d.payload], "receive modulation"),
        {"UPDATE_SOURCE_DRIVE"})

ModulationArm(st, d) == Log([st EXCEPT !.modulation = d.payload], "receive modulation")

CtrlFlagArm(st, d) == [st EXCEPT !.ctrl_flag = d.payload]

RequestFpgaVerMsbArm(st, d) == Log(st, "req fpga ver msb")

RequestFpgaVerLsbArm(st, d) == Log(st, "req fpga ver lsb")

RequestCpuVerMsbArm(st, d) == Log(st, "req cpu ver lsb")

RequestCpuVerLsbArm(st, d) == Log(st, "req cpu ver lsb")

SequenceArm(st, d) == Log([st EXCEPT !.sequence = d.payload], "receive sequence")

DelayOffsetArm(st, d) == Log([st EXCEPT !.delay_offset = d.payload], "receive delay offset")

\* match d { ... }
ApplyCmd(st, d) ==
  CASE d.kind = "Geometries" -> GeometriesArm(st, d)
    [] d.kind = "Gain" -> GainArm(st, d)
    [] d.kind = "Clear" -> ClearArm(st, d)
    [] d.kind = "Pause" -> PauseArm(st, d)
    [] d.kind = "Resume" -> ResumeArm(st, d)
    [] d.kind = "Modulation" -> ModulationArm(st, d)
    [] d.kind = "CtrlFlag" -> CtrlFlagArm(st, d)
    [] d.kind = "RequestFpgaVerMsb" -> RequestFpgaVerMsbArm(st, d)
    [] d.kind = "RequestFpgaVerLsb" -> RequestFpgaVerLsbArm(st, d)
    [] d.kind = "RequestCpuVerMsb" -> RequestCpuVerMsbArm(st, d)
    [] d.kind = "RequestCpuVerLsb" -> RequestCpuVerLsbArm(st, d)
    [] d.kind = "Sequence" -> SequenceArm(st, d)
    [] d.kind = "DelayOffset" -> DelayOffsetArm(st, d)

(***************************************************************************)
(* The commands the feed delivers (AutdData)                               *)
(***************************************************************************)

Cmd(kind, geometries, phases, amps, payload) ==
  [geometries |-> geometries, phases |-> phases, amps |-> amps, payload |-> payload,
   kind |-> kind]

SeqsUpTo(S, n) == UNION {[1..k -> S] : k \in 0..n}

Geometry == [num : 1..MaxSources, origin : Origins]

RECURSIVE TotalNum(_)
TotalNum(gs) == IF gs = <<>> THEN 0 ELSE Head(gs).num + TotalNum(Tail(gs))

GeometriesCmds ==
  {Cmd("Geometries", gs, <<>>, <<>>, "None") :
     gs \in {g \in SeqsUpTo(Geometry, MaxGeom) : TotalNum(g) <= MaxSources}}

GainCmds ==
  {Cmd("Gain", <<>>, ph, am, "None") :
     ph \in SeqsUpTo(PhaseBytes, MaxGain), am \in SeqsUpTo(AmpBytes, MaxGain)}

Plain(kind) == Cmd(kind, <<>>, <<>>, <<>>, "None")

WithPayload(kind) == Cmd(kind, <<>>, <<>>, <<>>, "Some")

(***************************************************************************)
(* AcousticFiledSliceViewer: the GPU resources of the slice                *)
(***************************************************************************)

I32Max == 2147483647

I32Min == -I32Max - 1

\* the i32 operations of a build without overflow checks (they wrap)
Neg32(x) == IF x = I32Min THEN I32Min ELSE -x

Inc32(x) == IF x = I32Max THEN I32Min ELSE x + 1

\* i32 division by a positive b, which rounds towards zero
TruncDiv(a, b) == IF a >= 0 \/ a % b = 0 THEN a \div b ELSE (a \div b) + 1

Clamp(x, lo, hi) == IF x < lo THEN lo ELSE IF x > hi THEN hi ELSE x

\* -width or width + 1 (or the same of the height) overflows i32
QuadOverflows(settings) ==
  \/ settings.slice_width \in {I32Min, I32Max}
  \/ settings.slice_height \in {I32Min, I32Max}

initialize_vertex_buf_and_slice(settings) ==
  LET width == settings.slice_width
      height == settings.slice_height
      wl == Clamp(TruncDiv(Neg32(width), 2), -32768, 0)
      wr == Clamp(TruncDiv(Inc32(width), 2), 0, 32767)
      hb == Clamp(TruncDiv(Neg32(height), 2), -32768, 0)
      ht == Clamp(TruncDiv(Inc32(height), 2), 0, 32767)
  IN [vertex_buffer |-> <<<<wl, hb, 0>>, <<wr, hb, 0>>, <<wr, ht, 0>>, <<wl, ht, 0>>>>,
      slice |-> <<0, 1, 2, 2, 3, 0>>]

\* a 1-D texture: Kind::D1(len as u16) and its texels
U16 == 65536

Texture(texels) == [kind |-> Len(texels) % U16, texels |-> texels]

generate_empty_view == Texture(<<<<0, 0, 0, 0>>>>)

\* (source.phase / PI * 255.) as u8: half a turn takes the whole byte
EncPhase_HalfTurn(phase) == AsU8(F32Mul255(F32Div(phase, 1078530011)))

\* (source.phase / (2.0 * PI) * 255.) as u8
EncPhase(phase) == AsU8(F32Mul255(F32Div(phase, TWO_PI_BITS)))

\* (source.amp * 255.0) as u8
EncAmp(amp) == AsU8(F32Mul255(amp))

\* a texel with the amplitude in its first channel and the phase in its second
DriveTexel_Swapped(source) == <<EncAmp(source.amp), EncPhase(source.phase), 0, 0>>

DriveTexel(source) == <<EncPhase(source.phase), EncAmp(source.amp), 0, 0>>

\* vecmath_util::to_vec4: the position with a fourth component of 0
to_vec4(pos) == <<pos[1], pos[2], pos[3], 0>>

\* the samples of the inferno color map at x / 100, x in 0..100 (exclusive)
ColorMapLen == 100

color_map == [len |-> ColorMapLen, colors |-> "inferno"]

\* the color map texture: texel i holds the r, g, b of colors[i], and every
\* texel the same fourth byte, (alpha * 255.) as u8
ColorTexture(colors, alpha) ==
  [kind |-> colors.len % U16, alpha |-> AsU8(F32Mul255(alpha)), rgb |-> colors.colors]

\* mat4_scale(1.0)
IdentityModel == [rot |-> <<"identity">>, trans |-> <<0, 0, 0, 1>>]

move_to(model, pos) == [model EXCEPT !.trans = pos]

\* a rotate_to that keeps the last row of mat4_rot(rot)
rotate_to_Fresh(model, euler_angle) ==
  [rot |-> <<"euler", euler_angle>>, trans |-> <<0, 0, 0, 1>>]

rotate_to(model, euler_angle) == [rot |-> <<"euler", euler_angle>>, trans |-> model.trans]

\* camera_controllers::model_view_projection: the product, kept as its factors
model_view_projection(model, view_projection) == <<model, view_projection>>

\* [[0.; 4]; 4]
ZeroMatrix == <<>>

initialize_pipe_data(vertex_buffer, drive_view, out_color, out_depth) ==
  [vertex_buffer |-> vertex_buffer,
   out_color |-> out_color,
   out_depth |-> out_depth,
   u_model_view_proj |-> ZeroMatrix,
   u_model |-> IdentityModel,
   u_color_scale |-> ONE_BITS,
   u_wavenum |-> 0,
   u_trans_num |-> 0,
   u_color_map |-> generate_empty_view,
   u_trans_pos |-> generate_empty_view,
   u_trans_drive |-> drive_view]

\* what can go wrong in one call of update: the texture or buffer creation
\* that the device refuses, or the overflow check of the build
Faults == {"none", "vertex", "drive", "pos", "color", "overflow"}

\* The state update works on: the pipeline data, the slice, the resource
\* categories rebuilt so far by this call, and the panic raised, if any.
Begin(pipe_data, slice) ==
  [slice |-> slice, pipe_data |-> pipe_data, rebuilt |-> {}, failed |-> "none"]

Panic(r, what) == [r EXCEPT !.failed = what]

\* an update_drive_texture without the return on an empty array
update_drive_texture_NoSkip(r, sources, fault) ==
  IF fault = "drive" THEN Panic(r, "drive")
  ELSE [r EXCEPT !.pipe_data.u_trans_drive =
                     Texture([i \in 1..Len(sources) |-> DriveTexel(sources[i])]),
                 !.rebuilt = r.rebuilt \cup {"drive_texture"}]

\* update_drive_texture
update_drive_texture(r, sources, fault) ==
  IF sources = <<>> THEN r
  ELSE IF fault = "drive" THEN Panic(r, "drive")
  ELSE [r EXCEPT !.pipe_data.u_trans_drive =
                     Texture([i \in 1..Len(sources) |-> DriveTexel(sources[i])]),
                 !.rebuilt = r.rebuilt \cup {"drive_texture"}]

\* an update_position_texture without the return on an empty array
update_position_texture_NoSkip(r, sources, fault) ==
  IF fault = "pos" THEN Panic(r, "pos")
  ELSE [r EXCEPT !.pipe_data.u_trans_pos =
                     Texture([i \in 1..Len(sources) |-> to_vec4(sources[i].pos)]),
                 !.rebuilt = r.rebuilt \cup {"position_texture"}]

\* update_position_texture
update_position_texture(r, sources, fault) ==
  IF sources = <<>> THEN r
  ELSE IF fault = "pos" THEN Panic(r, "pos")
  ELSE [r EXCEPT !.pipe_data.u_trans_pos =
                     Texture([i \in 1..Len(sources) |-> to_vec4(sources[i].pos)]),
                 !.rebuilt = r.rebuilt \cup {"position_texture"}]

\* update_color_map_texture
update_color_map_texture(r, colors, alpha, fault) ==
  IF fault = "color" THEN Panic(r, "color")
  ELSE [r EXCEPT !.pipe_data.u_color_map = ColorTexture(colors, alpha),
                 !.rebuilt = r.rebuilt \cup {"color_map_texture"}]

\* if update_flag.contains(UPDATE_SLICE_SIZE) { ... }
UpdateSliceSize(r, settings, flag, fault) ==
  IF r.failed # "none" \/ "UPDATE_SLICE_SIZE" \notin flag THEN r
  ELSE IF fault = "overflow" /\ QuadOverflows(settings) THEN Panic(r, "overflow")
  ELSE IF fault = "vertex" THEN Panic(r, "vertex")
  ELSE LET vs == initialize_vertex_buf_and_slice(settings)
       IN [r EXCEPT !.pipe_data.vertex_buffer = vs.vertex_buffer,
                    !.slice = vs.slice,
                    !.rebuilt = r.rebuilt \cup {"slice_quad"}]

\* if update_flag.contains(UPDATE_SOURCE_DRIVE) { ... }
UpdateSourceDrive(r, sources, flag, fault) ==
  IF r.failed # "none" \/ "UPDATE_SOURCE_DRIVE" \notin flag THEN r
  ELSE update_drive_texture(r, sources, fault)

\* an INIT_SOURCE block that leaves the source count as it was
UpdateInitSource_NoCount(r, sources, flag, fault) ==
  IF r.failed # "none" \/ "INIT_SOURCE" \notin flag THEN r
  ELSE update_position_texture(r, sources, fault)

\* if update_flag.contains(INIT_SOURCE) { ... }
UpdateInitSource(r, sources, flag, fault) ==
  IF r.failed # "none" \/ "INIT_SOURCE" \notin flag THEN r
  ELSE update_position_texture(
         [r EXCEPT !.pipe_data.u_trans_num = Len(sources),
                   !.rebuilt = r.rebuilt \cup {"source_count"}],
         sources, fault)

\* a color map block that a change of the drive runs as well
UpdateColorMap_OnDrive(r, settings, flag, fault) ==
  IF r.failed # "none" \/ flag \cap {"UPDATE_COLOR_MAP", "UPDATE_SOURCE_DRIVE"} = {} THEN r
  ELSE LET t == update_color_map_texture(r, color_map, settings.slice_alpha, fault)
       IN IF t.failed # "none" THEN t
          ELSE [t EXCEPT !.pipe_data.u_color_scale = settings.color_scale,
                         !.rebuilt = t.rebuilt \cup {"color_scale"}]

\* if update_flag.contains(UPDATE_COLOR_MAP) { ... }
UpdateColorMap(r, settings, flag, fault) ==
  IF r.failed # "none" \/ "UPDATE_COLOR_MAP" \notin flag THEN r
  ELSE LET t == update_color_map_texture(r, color_map, settings.slice_alpha, fault)
       IN IF t.failed # "none" THEN t
          ELSE [t EXCEPT !.pipe_data.u_color_scale = settings.color_scale,
                         !.rebuilt = t.rebuilt \cup {"color_scale"}]

\* a wavenumber that is recomputed on every call
UpdateWavenum_Always(r, settings, flag) ==
  IF r.failed # "none" THEN r
  ELSE [r EXCEPT !.pipe_data.u_wavenum = F32Div(TWO_PI_BITS, settings.wave_length),
                 !.rebuilt = r.rebuilt \cup {"wavenum"}]

\* if update_flag.contains(UPDATE_WAVENUM) { ... }
UpdateWavenum(r, settings, flag) ==
  IF r.failed # "none" \/ "UPDATE_WAVENUM" \notin flag THEN r
  ELSE [r EXCEPT !.pipe_data.u_wavenum = F32Div(TWO_PI_BITS, settings.wave_length),
                 !.rebuilt = r.rebuilt \cup {"wavenum"}]

\* if update_flag.contains(UPDATE_CAMERA_POS) || ...(UPDATE_SLICE_POS) || ...
UpdateMatrices(r, model, view_projection, flag) ==
  IF \/ r.failed # "none"
     \/ flag \cap {"UPDATE_CAMERA_POS", "UPDATE_SLICE_POS", "UPDATE_SLICE_SIZE"} = {}
  THEN r
  ELSE [r EXCEPT !.pipe_data.u_model = model,
                 !.pipe_data.u_model_view_proj =
                     model_view_projection(model, view_projection),
                 !.rebuilt = r.rebuilt \cup {"model", "model_view_proj"}]

\* an update that recomputes the model and model-view-projection uniforms
\* first, before the slice quad and the textures
update_MatricesFirst(pipe_data, slice, model, view_projection, settings, sources, flag, fault) ==
  UpdateWavenum(
    UpdateColorMap(
      UpdateInitSource(
        UpdateSourceDrive(
          UpdateSliceSize(
            UpdateMatrices(Begin(pipe_data, slice), model, view_projection, flag),
            settings, flag, fault),
          sources, flag, fault),
        sources, flag, fault),
      settings, flag, fault),
    settings, flag)

\* AcousticFiledSliceViewer::update
update(pipe_data, slice, model, view_projection, settings, sources, flag, fault) ==
  UpdateMatrices(
    UpdateWavenum(
      UpdateColorMap(
        UpdateInitSource(
          UpdateSourceDrive(
            UpdateSliceSize(Begin(pipe_data, slice), settings, flag, fault),
            sources, flag, fault),
          sources, flag, fault),
        settings, flag, fault),
      settings, flag),
    model, view_projection, flag)

(***************************************************************************)
(* State                                                                   *)
(***************************************************************************)

VARIABLES
  sources,        \* App.sources
  last_amp,       \* App.last_amp
  modulation,     \* App.modulation
  sequence,       \* App.sequence
  delay_offset,   \* App.delay_offset
  ctrl_flag,      \* App.ctrl_flag
  log_buf,        \* App.log_buf
  setting,        \* App.setting
  update_flag,    \* the update_flag local of App::run / App::handle_autd
  init,           \* App.init
  model,          \* AcousticFiledSliceViewer.model
  view_projection,\* App.view_projection
  render_sys,     \* the RenderSystem: its camera and its output views
  pipe_data,      \* AcousticFiledSliceViewer.pipe_data
  slice,          \* AcousticFiledSliceViewer.slice
  pc,             \* where App::run stands
  failed,         \* the panic the process has raised, "none" if none
  rebuilt,        \* the resource categories update has rebuilt in this frame
  last,           \* the feed command applied last
  paused          \* the amplitudes in effect before the Pause applied last

viewVars == <<init, model, view_projection, render_sys, pipe_data, slice, rebuilt>>

feedVars == <<sources, last_amp, modulation, sequence, delay_offset, ctrl_flag, log_buf>>

\* the fields handle_autd reads and writes, with its update_flag local
Self ==
  [sources |-> sources, log_enable |-> setting.log_enable, log_buf |-> log_buf,
   log_max |-> setting.log_max, update_flag |-> update_flag, modulation |-> modulation,
   sequence |-> sequence, delay_offset |-> delay_offset,
   last_amp |-> last_amp, ctrl_flag |-> ctrl_flag]

Store(st) ==
  /\ sources' = st.sources
  /\ last_amp' = st.last_amp
  /\ modulation' = st.modulation
  /\ sequence' = st.sequence
  /\ delay_offset' = st.delay_offset
  /\ ctrl_flag' = st.ctrl_flag
  /\ log_buf' = st.log_buf
  /\ update_flag' = st.update_flag

Amps(ss) == [i \in 1..Len(ss) |-> ss[i].amp]

Phases(ss) == [i \in 1..Len(ss) |-> ss[i].phase]

NoCmd == Plain("None")

NotPaused == [amps |-> <<>>, stage |-> "no", first |-> <<>>, pending |-> FALSE]

\* bookkeeping of the feed: after a Pause, the amplitudes in effect before it
\* (amps) and before the first Pause of the unbroken run of Pauses it ends
\* (first); they are kept over the Resume that follows it at once, and dropped
\* then; pending tells that a Pause was applied and no Resume since, and the
\* stage "unpaused" that the command applied last is a Resume that found no
\* Pause pending; the stage "gained" that only Gains came after the Pause, and
\* "regained" that the Resume after those Gains was applied last (amps is
\* kept over both)
NotePause(d) ==
  IF d.kind = "Pause"
  THEN [amps |-> Amps(sources), stage |-> "paused",
        first |-> IF paused.stage = "paused" THEN paused.first ELSE Amps(sources),
        pending |-> TRUE]
  ELSE IF d.kind = "Resume"
       THEN IF paused.stage = "paused"
            THEN [paused EXCEPT !.stage = "resumed", !.pending = FALSE]
            ELSE IF paused.stage = "gained"
                 THEN [paused EXCEPT !.stage = "regained", !.pending = FALSE]
                 ELSE IF paused.pending THEN NotPaused
                      ELSE [NotPaused EXCEPT !.stage = "unpaused"]
       ELSE IF d.kind = "Gain" /\ paused.stage \in {"paused", "gained"}
            THEN [paused EXCEPT !.stage = "gained"]
            ELSE [NotPaused EXCEPT !.pending = paused.pending]

(***************************************************************************)
(* Settings and the widgets of App::update_ui                              *)
(***************************************************************************)

\* f32 values of the settings, as bit patterns
F32 == [half |-> 1056964608, two |-> 1073741824, w8_5 |-> 1091043328,
        w10 |-> 1092616192]

\* ViewerSettings::default() and the rest of setting.json as first loaded;
\* camera rotation, field of view, clip planes and background are left out
LoadedSetting ==
  [log_enable |-> FALSE, log_max |-> 0,
   slice_width |-> 400, slice_height |-> 300,
   slice_alpha |-> ONE_BITS, color_scale |-> F32.two,
   wave_length |-> F32.w8_5, slice_pos |-> <<0, 0, 150, 1>>,
   slice_angle |-> <<"0", "0", "0">>, camera_pos |-> <<0, -500, 120>>,
   source_alpha |-> ONE_BITS]

ViewerFields ==
  {"slice_width", "slice_height", "slice_pos", "slice_angle", "color_scale",
   "slice_alpha", "wave_length", "camera_pos", "source_alpha"}

\* RenderSystem::get_view_projection
get_view_projection(rs, settings) == [camera |-> rs.camera]

\* the part of App the widgets work on
AppView == [model |-> model, view_projection |-> view_projection, setting |-> setting,
            render_sys |-> render_sys]

\* App::reset
reset(a) ==
  LET m == rotate_to(move_to(a.model, a.setting.slice_pos), a.setting.slice_angle)
      rs == [a.render_sys EXCEPT !.camera.position = a.setting.camera_pos]
  IN [a EXCEPT !.model = m, !.render_sys = rs,
               !.view_projection = get_view_projection(rs, a.setting)]

Edited(a, flag) == [flag |-> flag, app |-> a]

SetAngle(a, angle) ==
  LET s == [a.setting EXCEPT !.slice_angle = angle]
  IN Edited([a EXCEPT !.setting = s, !.model = rotate_to(a.model, angle)],
            {"UPDATE_SLICE_POS"})

\* the widget the user works in a frame, with the value it is set to
Widget(a, w, val) ==
  CASE w = "Slice width" ->
         Edited([a EXCEPT !.setting.slice_width = val], {"UPDATE_SLICE_SIZE"})
    [] w = "Slice heigh" ->
         Edited([a EXCEPT !.setting.slice_height = val], {"UPDATE_SLICE_SIZE"})
    [] w = "Slice X" ->
         LET pos == [a.setting.slice_pos EXCEPT ![1] = val]
         IN Edited([a EXCEPT !.setting.slice_pos = pos, !.model = move_to(a.model, pos)],
                   {"UPDATE_SLICE_POS"})
    [] w = "Slice RX" -> SetAngle(a, [a.setting.slice_angle EXCEPT ![1] = val])
    [] w = "Color scale" ->
         Edited([a EXCEPT !.setting.color_scale = val], {"UPDATE_COLOR_MAP"})
    [] w = "Slice alpha" ->
         Edited([a EXCEPT !.setting.slice_alpha = val], {"UPDATE_COLOR_MAP"})
    [] w = "xy" -> SetAngle(a, <<"0", "0", "0">>)
    [] w = "yz" -> SetAngle(a, <<"0", "-PI/2", "0">>)
    [] w = "zx" -> SetAngle(a, <<"PI/2", "0", "0">>)
    [] w = "Camera X" ->
         LET pos == [a.setting.camera_pos EXCEPT ![1] = val]
             rs == [a.render_sys EXCEPT !.camera.position = pos]
             s == [a.setting EXCEPT !.camera_pos = pos]
         IN Edited([a EXCEPT !.setting = s, !.render_sys = rs,
                             !.view_projection = get_view_projection(rs, s)],
                   {"UPDATE_CAMERA_POS"})
    [] w = "Wavelength" ->
         Edited([a EXCEPT !.setting.wave_length = val], {"UPDATE_WAVENUM"})
    [] w = "Transducer alpha" ->
         Edited([a EXCEPT !.setting.source_alpha = val], {"UPDATE_SOURCE_ALPHA"})
    [] w = "log enable" ->
         Edited([a EXCEPT !.setting.log_enable = ~a.setting.log_enable], {})
    [] w = "log Max" ->
         Edited(IF a.setting.log_enable THEN [a EXCEPT !.setting.log_max = val] ELSE a, {})
    [] w = "reset" -> Edited(reset([a EXCEPT !.setting = LoadedSetting]), UpdateFlagAll)
    [] w = "default" ->
         LET s == [f \in DOMAIN a.setting |->
                     IF f \in ViewerFields \ {"wave_length"} THEN LoadedSetting[f]
                     ELSE a.setting[f]]
         IN Edited(reset([a EXCEPT !.setting = s]), UpdateFlagAll)
    [] OTHER -> Edited(a, {})

\* the widgets worked in a frame of the whole loop, with their values; "none"
\* is a frame in which the user works no widget
UiInputs == {<<"none", 0>>, <<"reset", 0>>, <<"xy", 0>>}
(***************************************************************************)
(* App::run, one frame after the other                                     *)
(***************************************************************************)

\* resizes of the window, at most
MaxResize == 1

\* the fields of App::new that the feed fills later
InitInfo ==
  /\ last_amp = <<>>
  /\ modulation = "None"
  /\ sequence = "None"
  /\ delay_offset = "None"
  /\ ctrl_flag = "None"
  /\ log_buf = <<>>
  /\ failed = "none"
  /\ last = NoCmd
  /\ paused = NotPaused

InitFeed ==
  /\ sources = <<>>
  /\ update_flag = UpdateFlagEmpty
  /\ InitInfo

\* App::new, then the self.reset(&mut render_sys) that opens App::run
NewApp(settings) ==
  LET rs0 == [camera |-> [position |-> <<0, 0, 0>>], views |-> 0]
      vs == initialize_vertex_buf_and_slice(settings)
      a == reset([model |-> IdentityModel,
                  view_projection |-> get_view_projection(rs0, settings),
                  setting |-> settings,
                  render_sys |-> rs0])
  IN [slice |-> vs.slice,
      model |-> a.model,
      view_projection |-> a.view_projection,
      pipe_data |-> initialize_pipe_data(vs.vertex_buffer, generate_empty_view,
                                         rs0.views, rs0.views),
      render_sys |-> a.render_sys]

InitView ==
  /\ init = TRUE
  /\ model = NewApp(setting).model
  /\ view_projection = NewApp(setting).view_projection
  /\ render_sys = NewApp(setting).render_sys
  /\ pipe_data = NewApp(setting).pipe_data
  /\ slice = NewApp(setting).slice
  /\ rebuilt = {}

Init ==
  /\ setting = LoadedSetting
  /\ InitFeed
  /\ InitView
  /\ pc = "event"

\* an update_view that is handed the mask of the feed alone, without the
\* bits of the widgets
update_view_FeedOnly(flag, fault) ==
  update(pipe_data, slice, model, view_projection, setting, sources,
         flag \cap {"INIT_SOURCE", "UPDATE_SOURCE_DRIVE"}, fault)

\* self.update_view(render_sys, update_flag), for the slice viewer
update_view(flag, fault) ==
  update(pipe_data, slice, model, view_projection, setting, sources, flag, fault)

\* what a panic leaves behind: the process is gone
Abort(r) ==
  /\ pc' = "aborted"
  /\ failed' = r.failed
  /\ pipe_data' = r.pipe_data
  /\ slice' = r.slice
  /\ rebuilt' = r.rebuilt

\* RenderSystem::update_views: the color and depth views of the window are
\* acquired anew; views counts the acquisitions and so names the current pair
update_views(rs) == [rs EXCEPT !.views = rs.views + 1]

\* the viewer as it stands, when no update is called
NoSync ==
  [slice |-> slice, pipe_data |-> pipe_data, rebuilt |-> rebuilt, failed |-> "none"]

\* a handle_event that never synchronises
InitSync_Skip(fault) == NoSync

\* if self.init { self.update_view(render_sys, UpdateFlag::all()); ... }
InitSync(fault) == IF init THEN update_view(UpdateFlagAll, fault) ELSE NoSync

\* events_loop.run_return(...): App::handle_event, then the match on the event
Event(ev, fault) ==
  /\ pc = "event"
  /\ ev = "Resized" => render_sys.views < MaxResize
  /\ \E r \in {InitSync(fault)} :
        IF r.failed # "none"
        THEN Abort(r) /\ UNCHANGED <<init, render_sys>>
        ELSE /\ init' = FALSE
             /\ pipe_data' = IF ev = "Resized"
                             THEN [r.pipe_data EXCEPT !.out_color = render_sys.views,
                                                      !.out_depth = render_sys.views]
                             ELSE r.pipe_data
             /\ slice' = r.slice
             /\ rebuilt' = r.rebuilt
             /\ render_sys' = IF ev = "Resized" THEN update_views(render_sys)
                              ELSE render_sys
             /\ pc' = IF ev = "CloseRequested" THEN "closed" ELSE "call"
             /\ failed' = failed
  /\ UNCHANGED <<feedVars, setting, update_flag, last, paused, model, view_projection>>

EventResized == \E fault \in Faults : Event("Resized", fault)

EventCloseRequested == \E fault \in Faults : Event("CloseRequested", fault)

EventOther == \E fault \in Faults : Event("Other", fault)

\* let mut update_flag = UpdateFlag::empty();
HandleAutdCall ==
  /\ pc = "call"
  /\ pc' = "autd"
  /\ update_flag' = UpdateFlagEmpty
  /\ last' = NoCmd
  /\ UNCHANGED <<feedVars, setting, failed, paused, viewVars>>

Step(d) ==
  /\ pc = "autd"
  /\ Store(ApplyCmd(Self, d))
  /\ last' = d
  /\ paused' = NotePause(d)
  /\ UNCHANGED <<setting, failed, pc, viewVars>>

CmdGeometries == \E d \in GeometriesCmds : Step(d)

CmdGain == \E d \in GainCmds : Step(d)

CmdClear == Step(Plain("Clear"))

CmdPause == Step(Plain("Pause"))

CmdResume == Step(Plain("Resume"))

CmdModulation == Step(WithPayload("Modulation"))

CmdCtrlFlag == Step(WithPayload("CtrlFlag"))

CmdRequestFpgaVerMsb == Step(Plain("RequestFpgaVerMsb"))

CmdRequestFpgaVerLsb == Step(Plain("RequestFpgaVerLsb"))

CmdRequestCpuVerMsb == Step(Plain("RequestCpuVerMsb"))

CmdRequestCpuVerLsb == Step(Plain("RequestCpuVerLsb"))

CmdSequence == Step(WithPayload("Sequence"))

CmdDelayOffset == Step(WithPayload("DelayOffset"))

\* the batch is drained: handle_autd returns update_flag
HandleAutdReturn ==
  /\ pc = "autd"
  /\ pc' = "ui"
  /\ last' = NoCmd
  /\ UNCHANGED <<feedVars, setting, update_flag, failed, paused, viewVars>>

\* self.update_ui(&ui, &mut render_sys); with its result dropped: the bits
\* of the widgets are lost
UpdateUi_NoBits(w, val) ==
  /\ pc = "ui"
  /\ LET e == Widget(AppView, w, val)
     IN /\ setting' = e.app.setting
        /\ model' = e.app.model
        /\ render_sys' = e.app.render_sys
        /\ view_projection' = e.app.view_projection
        /\ update_flag' = update_flag
  /\ pc' = "sync"
  /\ UNCHANGED <<feedVars, failed, last, paused, init, pipe_data, slice, rebuilt>>

\* update_flag = self.update_ui(&ui, &mut render_sys): the bits of the feed
\* are lost
UpdateUi_Assign(w, val) ==
  /\ pc = "ui"
  /\ LET e == Widget(AppView, w, val)
     IN /\ setting' = e.app.setting
        /\ model' = e.app.model
        /\ render_sys' = e.app.render_sys
        /\ view_projection' = e.app.view_projection
        /\ update_flag' = e.flag
  /\ pc' = "sync"
  /\ UNCHANGED <<feedVars, failed, last, paused, init, pipe_data, slice, rebuilt>>

\* update_flag |= self.update_ui(&ui, &mut render_sys);
UpdateUi(w, val) ==
  /\ pc = "ui"
  /\ LET e == Widget(AppView, w, val)
     IN /\ setting' = e.app.setting
        /\ model' = e.app.model
        /\ render_sys' = e.app.render_sys
        /\ view_projection' = e.app.view_projection
        /\ update_flag' = update_flag \cup e.flag
  /\ pc' = "sync"
  /\ UNCHANGED <<feedVars, failed, last, paused, init, pipe_data, slice, rebuilt>>

UpdateUiAny == \E in \in UiInputs : UpdateUi(in[1], in[2])

\* self.update_view(&mut render_sys, update_flag);
UpdateView ==
  /\ pc = "sync"
  /\ \E fault \in Faults :
       \E r \in {update_view(update_flag, fault)} :
          IF r.failed # "none" THEN Abort(r) /\ update_flag' = update_flag
          ELSE /\ pipe_data' = r.pipe_data
               /\ slice' = r.slice
               /\ rebuilt' = r.rebuilt
               /\ pc' = "draw"
               /\ failed' = failed
               /\ update_flag' = update_flag
  /\ UNCHANGED <<feedVars, setting, last, paused, init, model,
                 view_projection, render_sys>>

\* self.field_slice_viewer.renderer(&mut encoder), and the frame is shown;
\* the frame's update_flag goes out of scope
Draw ==
  /\ pc = "draw"
  /\ pc' = "event"
  /\ update_flag' = UpdateFlagEmpty
  /\ rebuilt' = {}
  /\ UNCHANGED <<feedVars, setting, failed, last, paused, init, model,
                 view_projection, render_sys, pipe_data, slice>>

\* the commands the whole loop is fed: Geometries of at most one device, Gains
\* with as many phases as amplitudes and no amplitude of 0 (Clear and Pause
\* bring the zeroes)
TickGeometriesCmds == {d \in GeometriesCmds : Len(d.geometries) <= 1}

TickGainCmds ==
  {d \in GainCmds : /\ Len(d.phases) = Len(d.amps)
                    /\ \A i \in 1..Len(d.amps) : d.amps[i] # 0}

FeedGeometries == \E d \in TickGeometriesCmds : Step(d)

FeedGain == \E d \in TickGainCmds : Step(d)

vars == <<feedVars, setting, update_flag, failed, last, paused, viewVars, pc>>

Next ==
  \/ EventOther
  \/ EventCloseRequested
  \/ HandleAutdCall
  \/ FeedGeometries
  \/ FeedGain
  \/ CmdClear
  \/ CmdPause
  \/ CmdResume
  \/ HandleAutdReturn
  \/ UpdateUiAny
  \/ UpdateView
  \/ Draw

Spec == Init /\ [][Next]_vars

(***************************************************************************)
(* The command feed alone: handle_autd, call after call                    *)
(***************************************************************************)

InitCmd ==
  /\ setting = LoadedSetting
  /\ InitFeed
  /\ InitView
  /\ pc = "call"

\* handle_autd returns and the rest of the frame passes with no widget worked
\* and no event but the frame's own: the feed's state stays as it is
FrameRest ==
  /\ pc = "autd"
  /\ pc' = "call"
  /\ UNCHANGED <<feedVars, setting, update_flag, failed, last, paused, viewVars>>

NextCmd ==
  \/ HandleAutdCall
  \/ CmdGeometries
  \/ CmdGain
  \/ CmdClear
  \/ CmdPause
  \/ CmdResume
  \/ FrameRest

SpecCmd == InitCmd /\ [][NextCmd]_vars

(***************************************************************************)
(* The command feed with every kind of command, on at most one source      *)
(***************************************************************************)

InfoGeometriesCmds == {d \in GeometriesCmds : TotalNum(d.geometries) <= 1}

InfoGainCmds == {d \in GainCmds : Len(d.phases) <= 1 /\ Len(d.amps) <= 1}

InfoGeometries == \E d \in InfoGeometriesCmds : Step(d)

InfoGain == \E d \in InfoGainCmds : Step(d)

NextFeed ==
  \/ HandleAutdCall
  \/ InfoGeometries
  \/ InfoGain
  \/ CmdClear
  \/ CmdPause
  \/ CmdResume
  \/ CmdModulation
  \/ CmdCtrlFlag
  \/ CmdRequestFpgaVerMsb
  \/ CmdRequestFpgaVerLsb
  \/ CmdRequestCpuVerMsb
  \/ CmdRequestCpuVerLsb
  \/ CmdSequence
  \/ CmdDelayOffset
  \/ FrameRest

SpecFeed == InitCmd /\ [][NextFeed]_vars

(***************************************************************************)
(* AcousticFiledSliceViewer::update, called once with any mask             *)
(***************************************************************************)

\* the settings update is called with
OtherSetting ==
  [log_enable |-> FALSE, log_max |-> 0,
   slice_width |-> 1000, slice_height |-> 7,
   slice_alpha |-> F32.half, color_scale |-> ONE_BITS,
   wave_length |-> F32.w10, slice_pos |-> <<10, 0, 150, 1>>,
   slice_angle |-> <<"0", "-PI/2", "0">>, camera_pos |-> <<10, -500, 120>>,
   source_alpha |-> F32.half]

LibSettings == {LoadedSetting, OtherSetting}

\* the source arrays update is called with
LibSources ==
  {<<>>,
   <<SoundSource(<<3, 0, 0>>, <<0, 0, 1>>, GainAmp(85), GainPhase(5))>>,
   <<SoundSource(<<0, 0, 0>>, <<0, 0, 1>>, 0, 0),
     SoundSource(<<1, 0, 0>>, <<0, 0, 1>>, GainAmp(85), GainPhase(5))>>}

\* a viewer as new() left it, or as an update of everything has left it since
Viewers ==
  {NewApp(s) : s \in LibSettings} \cup
  {LET a == NewApp(s)
       r == update(a.pipe_data, a.slice, a.model, a.view_projection, s, ss,
                   UpdateFlagAll, "none")
   IN [a EXCEPT !.pipe_data = r.pipe_data, !.slice = r.slice] :
     s \in LibSettings, ss \in LibSources}

InitUpdate ==
  /\ InitInfo
  /\ sources \in LibSources
  /\ setting \in LibSettings
  /\ update_flag \in SUBSET UpdateFlagAll
  /\ init = FALSE
  /\ rebuilt = {}
  /\ \E v \in Viewers :
       /\ model = NewApp(setting).model
       /\ view_projection = NewApp(setting).view_projection
       /\ render_sys = NewApp(setting).render_sys
       /\ pipe_data = v.pipe_data
       /\ slice = v.slice
  /\ pc = "lib"

\* field_slice_viewer.update(render_sys, view_projection, settings, sources,
\* update_flag), with the mask and the inputs drawn at the start
ViewerUpdate ==
  /\ pc = "lib"
  /\ \E fault \in Faults :
       \E r \in {update_view(update_flag, fault)} :
          IF r.failed # "none" THEN Abort(r)
          ELSE /\ pipe_data' = r.pipe_data
               /\ slice' = r.slice
               /\ rebuilt' = r.rebuilt
               /\ pc' = "updated"
               /\ failed' = failed
  /\ UNCHANGED <<feedVars, setting, update_flag, last, paused, init, model,
                 view_projection, render_sys>>

NextUpdate == ViewerUpdate

SpecUpdate == InitUpdate /\ [][NextUpdate]_vars


(***************************************************************************)
(* The command feed placing devices at more than one place                 *)
(***************************************************************************)

\* x coordinates the devices of a Geometries command are placed at
Placements == {0, 10}

PlacedGeometry == [num : 1..MaxSources, origin : Placements]

PlacedGeometriesCmds ==
  {Cmd("Geometries", gs, <<>>, <<>>, "None") :
     gs \in {g \in SeqsUpTo(PlacedGeometry, MaxGeom) : TotalNum(g) <= MaxSources}}

PlaceGeometries == \E d \in PlacedGeometriesCmds : Step(d)

NextArray ==
  \/ HandleAutdCall
  \/ PlaceGeometries
  \/ FeedGain
  \/ CmdPause
  \/ FrameRest

SpecArray == InitCmd /\ [][NextArray]_vars

(***************************************************************************)
(* update_drive_texture on one source, of any drive                        *)
(***************************************************************************)

\* drives at the edges of the encoding's steps, as f32 bit patterns: for the
\* steps 1, 2, 64, 127, 128, 200, 254 and 255 the last f32 under the edge and
\* the first one on it or over it, and drives in the middle of a step
ProbePhases ==
  <<1019861428, 1019861429, 1028250036, 1028250037, 1070193076, 1070193077,
    1078478337, 1078478338, 1078581684, 1078581685, 1084076565, 1084076566,
    1086866945, 1086866946, 1086918618, 1011472821, 1075739631, 1086892782>>

ProbeAmps ==
  <<998277248, 998277249, 1006665856, 1006665857, 1048608896, 1048608897,
    1056898814, 1056898815, 1056997504, 1056997505, 1061734600, 1061734601,
    1065287422, 1065287423, 1065353215, 1065353216, 989888641, 1053411786>>

\* the drives update_drive_texture is called with, <<phase, amp>>: what a
\* Gain gives for each byte, and the probes
DriveInputs ==
  {<<GainPhase(b), GainAmp(b)>> : b \in 0..255}
  \cup {<<ProbePhases[i], ProbeAmps[i]>> : i \in 1..Len(ProbePhases)}

InitDrive ==
  /\ InitInfo
  /\ setting = LoadedSetting
  /\ \E in \in DriveInputs :
       sources = <<SoundSource(<<0, 0, 0>>, <<0, 0, 1>>, in[2], in[1])>>
  /\ update_flag = {"UPDATE_SOURCE_DRIVE"}
  /\ init = FALSE
  /\ rebuilt = {}
  /\ model = NewApp(setting).model
  /\ view_projection = NewApp(setting).view_projection
  /\ render_sys = NewApp(setting).render_sys
  /\ pipe_data = NewApp(setting).pipe_data
  /\ slice = NewApp(setting).slice
  /\ pc = "lib"

SpecDrive == InitDrive /\ [][NextUpdate]_vars

(***************************************************************************)
(* The slice quad rebuilt for any size the settings can hold               *)
(***************************************************************************)

\* the slice widths and heights drawn, from one end of i32 to the other
QuadSizes == {I32Min, -65537, -5, 0, 1, 400, 65534, 65535, 100000, I32Max}

QuadSettings ==
  {[LoadedSetting EXCEPT !.slice_width = w, !.slice_height = h] :
     w \in QuadSizes, h \in QuadSizes}

\* a viewer built for the loaded settings; the settings then take another
\* size, and update is called with UPDATE_SLICE_SIZE
InitQuad ==
  /\ InitInfo
  /\ sources = <<>>
  /\ setting \in QuadSettings
  /\ update_flag = {"UPDATE_SLICE_SIZE"}
  /\ init = FALSE
  /\ rebuilt = {}
  /\ model = NewApp(LoadedSetting).model
  /\ view_projection = NewApp(LoadedSetting).view_projection
  /\ render_sys = NewApp(LoadedSetting).render_sys
  /\ pipe_data = NewApp(LoadedSetting).pipe_data
  /\ slice = NewApp(LoadedSetting).slice
  /\ pc = "lib"

SpecQuad == InitQuad /\ [][NextUpdate]_vars

(***************************************************************************)
(* The command feed with Gains over the whole range of their bytes         *)
(***************************************************************************)

\* the phase and duty bytes drawn: both ends of the byte, their neighbours
\* and the middle
EdgeBytes == {0, 1, 5, 127, 128, 254, 255}

\* Gains of one entry
EdgeGainCmds ==
  {Cmd("Gain", <<>>, <<b>>, <<b>>, "None") : b \in EdgeBytes}
  \cup {Cmd("Gain", <<>>, <<0>>, <<255>>, "None"), Cmd("Gain", <<>>, <<255>>, <<0>>, "None")}

EdgeGain == \E d \in EdgeGainCmds : Step(d)

NextRange ==
  \/ HandleAutdCall
  \/ InfoGeometries
  \/ EdgeGain
  \/ CmdClear
  \/ CmdPause
  \/ CmdResume
  \/ FrameRest

SpecRange == InitCmd /\ [][NextRange]_vars

(***************************************************************************)
(* The frame loop of a window that is resized, fed Geometries only         *)
(***************************************************************************)

NextResize ==
  \/ EventOther
  \/ EventResized
  \/ EventCloseRequested
  \/ HandleAutdCall
  \/ FeedGeometries
  \/ HandleAutdReturn
  \/ UpdateUiAny
  \/ UpdateView
  \/ Draw

SpecResize == Init /\ [][NextResize]_vars
(***************************************************************************)
(* The field the slice shows, sampled on four sources in a square          *)
(***************************************************************************)

\* update is called with INIT_SOURCE and UPDATE_SOURCE_DRIVE on four sources
\* at the corners of a square of side 10, each with a drive of its own: full
\* amplitude or a third of the duty, phase 0 or the phase of byte 5
InitField ==
  /\ InitInfo
  /\ setting = LoadedSetting
  /\ LET corners == <<<<0, 0, 0>>, <<10, 0, 0>>, <<0, 10, 0>>, <<10, 10, 0>>>>
         drives == {<<0, ONE_BITS>>, <<GainPhase(5), ONE_BITS>>, <<0, GainAmp(85)>>}
     IN \E d \in [1..4 -> drives] :
          sources = [i \in 1..4 |->
                       SoundSource(corners[i], <<0, 0, 1>>, d[i][2], d[i][1])]
  /\ update_flag = {"INIT_SOURCE", "UPDATE_SOURCE_DRIVE"}
  /\ init = FALSE
  /\ rebuilt = {}
  /\ model = NewApp(setting).model
  /\ view_projection = NewApp(setting).view_projection
  /\ render_sys = NewApp(setting).render_sys
  /\ pipe_data = NewApp(setting).pipe_data
  /\ slice = NewApp(setting).slice
  /\ pc = "lib"

SpecField == InitField /\ [][NextUpdate]_vars

\* The terms of the sum the field evaluator forms at the point p: for source
\* i of the u_trans_num sources bound, the amplitude byte a and the phase byte
\* b of its drive texel and the square r2 of its distance to p, which stand
\* for the term (a / 255) / sqrt(r2) * exp(j * (u_wavenum * sqrt(r2) -
\* 2 * pi * b / 255)), the directivity weight being 1
FieldTerms(pd, p) ==
  [i \in 1..pd.u_trans_num |->
     LET tp == pd.u_trans_pos.texels[i]
         drive == pd.u_trans_drive.texels[i]
     IN [amp |-> drive[2],
         phase |-> drive[1],
         r2 |-> (p[1] - tp[1]) * (p[1] - tp[1]) + (p[2] - tp[2]) * (p[2] - tp[2])
                  + (p[3] - tp[3]) * (p[3] - tp[3])]]

(***************************************************************************)
(* The frame loop with every widget of the Controller window, and no feed  *)
(***************************************************************************)

\* the widgets worked, one in a frame, with the values they are set to
WidgetInputs ==
  UiInputs
  \cup ({"Slice width"} \X {400, 1000})
  \cup ({"Slice heigh"} \X {300, 7})
  \cup ({"Slice X", "Camera X"} \X {0, 10})
  \cup ({"Slice RX"} \X {"0", "PI/2"})
  \cup ({"Color scale"} \X {F32.two, ONE_BITS})
  \cup ({"Slice alpha", "Transducer alpha"} \X {ONE_BITS, F32.half})
  \cup ({"Wavelength"} \X {F32.w8_5, F32.w10})
  \cup ({"log Max"} \X (0..MaxLog))
  \cup ({"yz", "zx", "log enable", "default"} \X {0})

UpdateUiWidget == \E in \in WidgetInputs : UpdateUi(in[1], in[2])

NextUi ==
  \/ EventOther
  \/ HandleAutdCall
  \/ HandleAutdReturn
  \/ UpdateUiWidget
  \/ UpdateView
  \/ Draw

SpecUi == Init /\ [][NextUi]_vars

(***************************************************************************)
(* The whole loop with the Log tab worked and commands that log            *)
(***************************************************************************)

\* the Log tab: the enable button and the Max slider, or no widget worked
UpdateUiLog ==
  \E in \in {<<"none", 0>>, <<"log enable", 0>>} \cup ({"log Max"} \X (0..MaxLog)) :
     UpdateUi(in[1], in[2])

NextLog ==
  \/ EventOther
  \/ HandleAutdCall
  \/ CmdClear
  \/ CmdPause
  \/ CmdModulation
  \/ CmdCtrlFlag
  \/ CmdRequestCpuVerMsb
  \/ HandleAutdReturn
  \/ UpdateUiLog
  \/ UpdateView
  \/ Draw

SpecLog == Init /\ [][NextLog]_vars

(***************************************************************************)
(* Claims about the command feed                                           *)
(***************************************************************************)

AllZeroAmp(ss) == \A i \in 1..Len(ss) : ss[i].amp = 0

\* C4: a Pause stores in last_amp exactly the amplitudes in effect just before
\* it, in source order, and sets every amplitude to 0; the Resume that follows
\* it makes every amplitude equal to its value before the Pause.
C4_PauseResumeExact ==
  /\ paused.stage = "paused" => last_amp = paused.amps /\ AllZeroAmp(sources)
  /\ paused.stage = "resumed" => Amps(sources) = paused.amps /\ last_amp = <<>>

\* C4: a Resume has restored two different amplitudes, one of them not 0
C4_Witness ==
  /\ paused.stage = "resumed"
  /\ Len(sources) = 2
  /\ sources[1].amp # sources[2].amp
  /\ sources[2].amp = GainAmp(85)

\* C5: a Clear sets amplitude and phase of every source to 0, leaves the length
\* of the array and every position and direction as they were, and adds the
\* UPDATE_SOURCE_DRIVE bit and no other to the mask.
C5_ClearZeroesDrive ==
  [][(pc = "autd" /\ last'.kind = "Clear") =>
       /\ Len(sources') = Len(sources)
       /\ \A i \in 1..Len(sources) :
            sources'[i] = [sources[i] EXCEPT !.amp = 0, !.phase = 0]
       /\ update_flag' = update_flag \cup {"UPDATE_SOURCE_DRIVE"}]_vars

\* C5: a Clear, alone in its batch, has zeroed an array of two driven sources
C5_Witness ==
  /\ last.kind = "Clear"
  /\ Len(sources) = 2
  /\ \A i \in 1..2 : sources[i].amp = 0 /\ sources[i].phase = 0
  /\ sources[1].pos # sources[2].pos
  /\ update_flag = {"UPDATE_SOURCE_DRIVE"}

\* the Gain applied last has fewer phase or amplitude entries than the array
\* has sources
ShortGain ==
  /\ last.kind = "Gain"
  /\ Min(Len(last.phases), Len(last.amps)) < Len(sources)

C8_GainPrefix ==
  [][(pc = "autd" /\ last'.kind = "Gain") =>
       LET k == Min(Len(last'.phases), Len(last'.amps))
       IN /\ Len(sources') = Len(sources)
          /\ \A i \in 1..Len(sources) :
               sources'[i] =
                 IF i <= k
                 THEN [sources[i] EXCEPT !.amp = GainAmp(last'.amps[i]),
                                         !.phase = GainPhase(last'.phases[i])]
                 ELSE sources[i]]_vars

\* C8: a Gain with one entry has changed the first of two sources and left the
\* second, which is driven, as it was
C8_Witness ==
  /\ last.kind = "Gain"
  /\ Len(last.phases) = 1
  /\ last.amps = <<0>>
  /\ Len(sources) = 2
  /\ sources[1].amp = 0
  /\ sources[2].amp = GainAmp(85)
  /\ sources[2].phase = GainPhase(5)

(***************************************************************************)
(* Claims about the change mask of handle_autd                             *)
(***************************************************************************)

Positions(ss) == [i \in 1..Len(ss) |-> ss[i].pos]

\* C1: while handle_autd drains a batch, a command that changes an amplitude
\* or a phase, and every Geometries, Gain, Clear, Pause and Resume, leaves
\* UPDATE_SOURCE_DRIVE in the mask; a command that replaces the array or
\* changes a position, and every Geometries, leaves INIT_SOURCE in it; no
\* command takes a bit out of the mask, and the mask is returned as it stands
\* after the last command.
C1_MaskIsUnion ==
  [][pc = "autd" =>
       /\ update_flag \subseteq update_flag'
       /\ (Amps(sources') # Amps(sources) \/ Phases(sources') # Phases(sources))
            => "UPDATE_SOURCE_DRIVE" \in update_flag'
       /\ Positions(sources') # Positions(sources) => "INIT_SOURCE" \in update_flag'
       /\ (pc' = "autd" /\ last'.kind \in {"Geometries", "Gain", "Clear", "Pause", "Resume"})
            => "UPDATE_SOURCE_DRIVE" \in update_flag'
       /\ (pc' = "autd" /\ last'.kind = "Geometries") => "INIT_SOURCE" \in update_flag'
       /\ pc' # "autd" => update_flag' = update_flag]_vars

\* C1: a CtrlFlag has followed a Geometries in a batch, and both bits of the
\* Geometries are in the mask still
C1_Witness ==
  /\ pc = "autd"
  /\ last.kind = "CtrlFlag"
  /\ ctrl_flag = "Some"
  /\ Len(sources) = 1
  /\ update_flag = {"INIT_SOURCE", "UPDATE_SOURCE_DRIVE"}

(***************************************************************************)
(* Claims about the frame                                                  *)
(***************************************************************************)

\* C2: at every draw of the slice with a non-empty source array, the drive
\* texture has one texel per source, texel i holding the encoded phase and
\* amplitude source i has now, and the position texture has one texel per
\* source, texel i holding the position source i has now.
C2_DrawConsistent ==
  (pc = "draw" /\ sources # <<>>) =>
    /\ pipe_data.u_trans_drive.kind = Len(sources)
    /\ Len(pipe_data.u_trans_drive.texels) = Len(sources)
    /\ pipe_data.u_trans_pos.kind = Len(sources)
    /\ Len(pipe_data.u_trans_pos.texels) = Len(sources)
    /\ \A i \in 1..Len(sources) :
         /\ pipe_data.u_trans_drive.texels[i] =
              <<EncPhase(sources[i].phase), EncAmp(sources[i].amp), 0, 0>>
         /\ pipe_data.u_trans_pos.texels[i] =
              <<sources[i].pos[1], sources[i].pos[2], sources[i].pos[3], 0>>

\* C2: a frame is about to be drawn in which the feed has changed the drive of
\* two sources that an earlier frame had placed
C2_Witness ==
  /\ pc = "draw"
  /\ Len(sources) = 2
  /\ update_flag = {"UPDATE_SOURCE_DRIVE"}
  /\ sources[1].amp = GainAmp(85)
  /\ sources[1].phase = GainPhase(5)
  /\ sources[2].amp = 0
  /\ pipe_data.u_trans_drive.texels[1][2] = 127
  /\ pipe_data.u_trans_drive.texels[2][2] = 0

\* C6: a synchronisation in a frame in which no producer has raised a bit
\* rebuilds nothing, leaves every texture, buffer and uniform as it was, and
\* goes on to the draw.
C6_Idempotent ==
  [][(pc = "sync" /\ update_flag = UpdateFlagEmpty) =>
       /\ pipe_data' = pipe_data
       /\ slice' = slice
       /\ rebuilt' = {}
       /\ pc' = "draw"]_vars

\* C6: a frame with no bit raised has been synchronised, frames after two
\* sources were placed and their textures built
C6_Witness ==
  /\ pc = "draw"
  /\ ~init
  /\ update_flag = UpdateFlagEmpty
  /\ rebuilt = {}
  /\ Len(sources) = 2
  /\ Len(pipe_data.u_trans_drive.texels) = 2
  /\ pipe_data.u_color_map.kind = ColorMapLen

\* the bit whose rebuild raised the panic
TriggerBit(what) ==
  CASE what = "drive" -> "UPDATE_SOURCE_DRIVE"
    [] what = "pos" -> "INIT_SOURCE"
    [] what = "color" -> "UPDATE_COLOR_MAP"
    [] OTHER -> "UPDATE_SLICE_SIZE"

\* C9, as claimed: when the rebuild of a resource fails, the bit that asked
\* for it stays set and the loop goes on, to retry in the next frame and to
\* draw with the resource built before.
C9_RetryAfterFailure ==
  failed # "none" => (pc # "aborted" /\ TriggerBit(failed) \in update_flag)

\* C10, as claimed: no feed command, setting or failed rebuild aborts the
\* process.
C10_NeverAborts == pc # "aborted"

(***************************************************************************)
(* Claims about update                                                     *)
(***************************************************************************)

Bit(flag, bit, categories) == IF bit \in flag THEN categories ELSE {}

\* the resource categories the flags of a mask name
Implicated(flag) ==
  Bit(flag, "UPDATE_SLICE_SIZE", {"slice_quad"})
  \cup Bit(flag, "UPDATE_SOURCE_DRIVE", {"drive_texture"})
  \cup Bit(flag, "INIT_SOURCE", {"position_texture", "source_count"})
  \cup Bit(flag, "UPDATE_COLOR_MAP", {"color_map_texture", "color_scale"})
  \cup Bit(flag, "UPDATE_WAVENUM", {"wavenum"})
  \cup (IF flag \cap {"UPDATE_CAMERA_POS", "UPDATE_SLICE_POS", "UPDATE_SLICE_SIZE"} # {}
        THEN {"model", "model_view_proj"} ELSE {})

\* the resource category a field of the pipeline data belongs to
CategoryOf(field) ==
  CASE field = "vertex_buffer" -> "slice_quad"
    [] field = "u_trans_drive" -> "drive_texture"
    [] field = "u_trans_pos" -> "position_texture"
    [] field = "u_trans_num" -> "source_count"
    [] field = "u_color_map" -> "color_map_texture"
    [] field = "u_color_scale" -> "color_scale"
    [] field = "u_wavenum" -> "wavenum"
    [] field = "u_model" -> "model"
    [] field = "u_model_view_proj" -> "model_view_proj"
    [] OTHER -> "render_target"

\* a call of update has returned
Updated == pc = "lib" /\ pc' = "updated"

\* C3, as claimed: a call of update rebuilds a resource category if and only
\* if its flag is in the mask.
C3_Original == [][Updated => rebuilt' = Implicated(update_flag)]_vars

\* C3, amended: a call of update that returns rebuilds the drive texture iff
\* UPDATE_SOURCE_DRIVE is in the mask and the source array is not empty, the
\* position texture iff INIT_SOURCE is in the mask and the source array is not
\* empty, and every other category iff its flag is in the mask (the source
\* count iff INIT_SOURCE); what it rebuilds holds the current sources and
\* settings, and every other resource is left as it was.
C3_UpdateContract ==
  [][Updated =>
       LET skipped == IF sources = <<>> THEN {"drive_texture", "position_texture"}
                      ELSE {}
           built == Implicated(update_flag) \ skipped
       IN /\ rebuilt' = built
          /\ \A f \in DOMAIN pipe_data :
               CategoryOf(f) \notin built => pipe_data'[f] = pipe_data[f]
          /\ "slice_quad" \notin built => slice' = slice
          /\ "drive_texture" \in built =>
               /\ Len(pipe_data'.u_trans_drive.texels) = Len(sources)
               /\ \A i \in 1..Len(sources) :
                    pipe_data'.u_trans_drive.texels[i][2] = EncAmp(sources[i].amp)
          /\ "position_texture" \in built =>
               /\ Len(pipe_data'.u_trans_pos.texels) = Len(sources)
               /\ \A i \in 1..Len(sources) :
                    pipe_data'.u_trans_pos.texels[i][1] = sources[i].pos[1]
          /\ "source_count" \in built => pipe_data'.u_trans_num = Len(sources)
          /\ "color_scale" \in built => pipe_data'.u_color_scale = setting.color_scale
          /\ "color_map_texture" \in built =>
               pipe_data'.u_color_map.alpha = AsU8(F32Mul255(setting.slice_alpha))
          /\ "model" \in built => pipe_data'.u_model = model
          /\ "slice_quad" \in built =>
               pipe_data'.vertex_buffer[3][1] = (setting.slice_width + 1) \div 2]_vars

\* C3: update has returned from a call with INIT_SOURCE and
\* UPDATE_SOURCE_DRIVE on an empty source array: it has set the source count,
\* and the textures of the sources drawn before are in place still
C3_Witness ==
  /\ pc = "updated"
  /\ sources = <<>>
  /\ update_flag = {"INIT_SOURCE", "UPDATE_SOURCE_DRIVE"}
  /\ rebuilt = {"source_count"}
  /\ pipe_data.u_trans_num = 0
  /\ Len(pipe_data.u_trans_drive.texels) = 2
  /\ Len(pipe_data.u_trans_pos.texels) = 2

(***************************************************************************)
(* Claims about start-up and the life of the change mask                   *)
(***************************************************************************)

\* the categories a synchronisation with this mask rebuilds: those the mask
\* names, less the two source textures when there is no source
RebuiltFor(flag) ==
  Implicated(flag) \ (IF sources = <<>> THEN {"drive_texture", "position_texture"}
                      ELSE {})

\* C11: the first event of a run is answered by a synchronisation with the
\* full mask, which is over before any draw of the slice; it happens once:
\* the events after it synchronise nothing.
C11_StartupSync ==
  [][/\ (init /\ pc = "event" /\ pc' # "aborted") =>
          /\ ~init'
          /\ rebuilt' = RebuiltFor(UpdateFlagAll)
          /\ pipe_data'.u_color_map = ColorTexture(color_map, setting.slice_alpha)
          /\ pipe_data'.u_color_scale = setting.color_scale
          /\ pipe_data'.u_wavenum = F32Div(TWO_PI_BITS, setting.wave_length)
          /\ pipe_data'.u_trans_num = Len(sources)
          /\ pipe_data'.u_model = model
          /\ pipe_data'.u_model_view_proj = <<model, view_projection>>
     /\ ~init => (~init' /\ (pc = "event" => (pipe_data' = pipe_data /\ slice' = slice)))
     /\ pc' \in {"call", "autd", "ui", "sync", "draw"} => ~init'
    ]_vars

\* C11: the first frame is about to be drawn: no producer has raised a bit
\* and no source is placed, and the uniforms and the color map are built
C11_Witness ==
  /\ pc = "draw"
  /\ ~init
  /\ sources = <<>>
  /\ update_flag = UpdateFlagEmpty
  /\ rebuilt = {}
  /\ pipe_data.u_wavenum = F32Div(TWO_PI_BITS, LoadedSetting.wave_length)
  /\ pipe_data.u_color_map.kind = ColorMapLen
  /\ pipe_data.u_model_view_proj # ZeroMatrix

\* the producers of a frame, the command feed and the widgets, only add bits
\* to the frame's mask, and the mask is empty when the next frame starts
ProducersOnlyAdd ==
  /\ pc \in {"autd", "ui"} => update_flag \subseteq update_flag'
  /\ pc = "sync" => update_flag' = update_flag
  /\ pc' \in {"event", "call"} => update_flag' = UpdateFlagEmpty

\* the frame is drawn and its mask is dropped
MaskDropped == pc = "draw" /\ pc' = "event"

\* C12, as claimed: the producers only add bits; a bit leaves the mask only
\* when the synchroniser has rebuilt the category it names; a bit set at the
\* synchronisation is not set when the next frame starts.
C12_Original ==
  [][/\ ProducersOnlyAdd
     /\ MaskDropped => Implicated(update_flag) \subseteq rebuilt]_vars

\* C12, amended: the producers only add bits; the mask is a local of the
\* frame, dropped after the draw and empty when the next frame starts; when it
\* is dropped the synchroniser has rebuilt the categories its bits name, less
\* the drive and position textures when the source array is empty.
C12_MaskLifecycle ==
  [][/\ ProducersOnlyAdd
     /\ MaskDropped => rebuilt = RebuiltFor(update_flag)]_vars

\* C12: a frame is about to be drawn in which the feed has placed two sources
\* and the user has turned the slice: the bits of both are in the mask, and
\* the categories of both are rebuilt
C12_Witness ==
  /\ pc = "draw"
  /\ Len(sources) = 2
  /\ update_flag = {"INIT_SOURCE", "UPDATE_SOURCE_DRIVE", "UPDATE_SLICE_POS"}
  /\ rebuilt = {"drive_texture", "position_texture", "source_count", "model",
                "model_view_proj"}

(***************************************************************************)
(* Claims about the source array                                           *)
(***************************************************************************)

\* transducer k of the devices of a Geometries command, counted through the
\* devices in their order
RECURSIVE TransducerAt(_, _)
TransducerAt(gs, k) ==
  IF k <= Head(gs).num THEN make_autd_transducers(Head(gs))[k]
  ELSE TransducerAt(Tail(gs), k - Head(gs).num)

\* C13: after a Geometries command the source array holds the transducers of
\* the command's geometries, in their order, and nothing else, and
\* INIT_SOURCE and UPDATE_SOURCE_DRIVE are in the mask.
C13_GeometriesReplace ==
  [][(pc = "autd" /\ last'.kind = "Geometries") =>
       /\ Len(sources') = TotalNum(last'.geometries)
       /\ \A k \in 1..Len(sources') : sources'[k] = TransducerAt(last'.geometries, k)
       /\ {"INIT_SOURCE", "UPDATE_SOURCE_DRIVE"} \subseteq update_flag']_vars

\* C13: a Geometries of one device, placed away from the origin, has come
\* after two driven sources were paused: the array holds the one transducer of
\* the device, not driven, and nothing of the two sources
C13_Witness ==
  /\ last.kind = "Geometries"
  /\ Len(last.geometries) = 1
  /\ last_amp = <<GainAmp(85), GainAmp(85)>>
  /\ Len(sources) = 1
  /\ sources[1].pos[1] = 10
  /\ AllZeroAmp(sources)
  /\ {"INIT_SOURCE", "UPDATE_SOURCE_DRIVE"} \subseteq update_flag

(***************************************************************************)
(* Claims about the drive texture's bytes                                  *)
(*                                                                         *)
(* The value of an f32 with significand m and exponent field e is          *)
(* m * 2^(e - 150).  Products that pass 31 bits are kept as <<hi, lo>>,    *)
(* standing for hi * 2^20 + lo.                                            *)
(***************************************************************************)

Wide(n) == <<n \div 2^20, n % 2^20>>

\* x * k, for k up to 2^10
WideMul(x, k) == <<x[1] * k + (x[2] * k) \div 2^20, (x[2] * k) % 2^20>>

WideLeq(x, y) == x[1] < y[1] \/ (x[1] = y[1] /\ x[2] <= y[2])

\* lo <= k * x <= hi, for an f32 x in (0, 8): both sides are scaled by
\* 2^(150 - e); lo below 0 stands for no lower limit
Between(lo, k, x, hi) ==
  LET kx == WideMul(Wide(F32Man(x)), k)
      up(n) == <<n * 2^(130 - F32Exp(x)), 0>>
  IN /\ lo >= 0 => WideLeq(up(lo), kx)
     /\ WideLeq(kx, up(hi))

\* lo * 2PI <= k * x <= hi * 2PI, for an f32 x in (0, 8) and 2PI the f32
\* constant the encoding divides by
BetweenTurns(lo, k, x, hi) ==
  LET kx == WideMul(Wide(F32Man(x)), k)
      up(n) == WideMul(WideMul(Wide(F32Man(TWO_PI_BITS)), n), 2^(129 - F32Exp(x)))
  IN /\ lo >= 0 => WideLeq(up(lo), kx)
     /\ WideLeq(kx, up(hi))

\* |phase - byte / 255 * 2PI| <= 2PI / 255
PhaseWithinStep(phase, byte) ==
  IF phase = 0 THEN byte <= 1 ELSE BetweenTurns(byte - 1, 255, phase, byte + 1)

\* |amp - byte / 255| <= 1 / 255
AmpWithinStep(amp, byte) ==
  IF amp = 0 THEN byte <= 1 ELSE Between(byte - 1, 255, amp, byte + 1)

\* the one source update_drive_texture was called with is in the ranges of a
\* Source: phase in [0, 2PI), amplitude in [0, 1]
DriveInRange(s) == s.phase < TWO_PI_BITS /\ s.amp <= ONE_BITS

PhaseRounded(phase, byte) ==
  IF phase = 0 THEN byte = 0 ELSE BetweenTurns(2 * byte - 1, 510, phase, 2 * byte + 1)

\* byte = round(x * 255), a tie going either way
AmpRounded(amp, byte) ==
  IF amp = 0 THEN byte = 0 ELSE Between(2 * byte - 1, 510, amp, 2 * byte + 1)

\* C16, as claimed: the phase byte of a source's drive texel is
\* round(phase / 2PI * 255) and its amplitude byte is round(amp * 255).
C16_RoundsToNearest ==
  (pc = "updated" /\ DriveInRange(sources[1])) =>
    /\ PhaseRounded(sources[1].phase, pipe_data.u_trans_drive.texels[1][1])
    /\ AmpRounded(sources[1].amp, pipe_data.u_trans_drive.texels[1][2])

(***************************************************************************)
(* Claims about the slice quad                                             *)
(***************************************************************************)

\* the corners of the quad: left and bottom of the first, right and top of
\* the third
QuadInRange(vb) ==
  /\ -32768 <= vb[1][1] /\ vb[1][1] <= 0
  /\ 0 <= vb[3][1] /\ vb[3][1] <= 32767
  /\ -32768 <= vb[1][2] /\ vb[1][2] <= 0
  /\ 0 <= vb[3][2] /\ vb[3][2] <= 32767

\* C15, as claimed: for every width and height an i32 holds, building the
\* slice quad neither overflows nor aborts, and the quad's corners satisfy
\* -32768 <= left <= 0 <= right <= 32767, -32768 <= bottom <= 0 <= top <= 32767.
C15_QuadClamped ==
  /\ failed # "overflow"
  /\ (pc = "updated" /\ "slice_quad" \in rebuilt) => QuadInRange(pipe_data.vertex_buffer)

(***************************************************************************)
(* Claims about the drive of the sources                                   *)
(***************************************************************************)

\* C17, as claimed: after any commands of the feed every source has an
\* amplitude in [0, 1] and a phase in [0, 2PI), 2PI left out.
C17_DriveRanges ==
  \A i \in 1..Len(sources) :
    /\ sources[i].amp <= ONE_BITS
    /\ sources[i].phase < TWO_PI_BITS

Directions(ss) == [i \in 1..Len(ss) |-> ss[i].dir]

\* a Geometries command is applied
GeometriesStep == pc = "autd" /\ pc' = "autd" /\ last'.kind = "Geometries"

\* C18: the length of the source array and the position and direction of
\* every source change with a Geometries command only: every other command of
\* the feed, and every other step, leaves them as they were.
C18_ShapeStable ==
  [][~GeometriesStep =>
       /\ Len(sources') = Len(sources)
       /\ Positions(sources') = Positions(sources)
       /\ Directions(sources') = Directions(sources)]_vars

\* C18: a Sequence has been applied to an array of one driven source: the
\* source is where the Geometries placed it, with the drive of the Gain
C18_Witness ==
  /\ last.kind = "Sequence"
  /\ sequence = "Some"
  /\ paused.stage = "no"
  /\ last_amp = <<>>
  /\ Len(sources) = 1
  /\ sources[1].pos = <<0, 0, 0>>
  /\ sources[1].dir = <<0, 0, 1>>
  /\ sources[1].amp = GainAmp(85)
  /\ sources[1].phase = GainPhase(5)

(***************************************************************************)
(* Claims about the order of a frame                                       *)
(***************************************************************************)

\* C19: in every frame the feed is drained into the source array first, then
\* the widgets are applied and their bits merged into the mask, then the
\* synchroniser runs with the merged mask, then the slice is drawn, once; the
\* source array changes while the feed is drained and at no other time, so
\* not between the synchronisation and the draw.
C19_TickOrder ==
  [][/\ pc = "call" => pc' = "autd"
     /\ pc = "autd" => pc' \in {"autd", "ui"}
     /\ pc = "ui" => (pc' = "sync" /\ update_flag \subseteq update_flag')
     /\ pc = "sync" => /\ pc' \in {"draw", "aborted"}
                       /\ update_flag' = update_flag
                       /\ pc' = "draw" => rebuilt' = RebuiltFor(update_flag)
     /\ pc = "draw" => (pc' = "event" /\ pipe_data' = pipe_data /\ slice' = slice)
     /\ pc # "autd" => sources' = sources
    ]_vars

\* C19: a frame is about to be drawn with one source placed and all bits in
\* its mask, as the reset button leaves it: the synchroniser has run with all
\* of them, and the textures hold the one source
C19_Witness ==
  /\ pc = "draw"
  /\ Len(sources) = 1
  /\ update_flag = UpdateFlagAll
  /\ rebuilt = Implicated(UpdateFlagAll)
  /\ pipe_data.u_trans_num = 1
  /\ Len(pipe_data.u_trans_pos.texels) = 1

(***************************************************************************)
(* Claims about the render targets                                         *)
(***************************************************************************)

\* C20, as claimed: once a resize of the window has been handled, the slice
\* is drawn to the color and depth targets the render system holds since the
\* resize, not to those it held before.
C20_FreshTargets ==
  (pc = "draw" /\ render_sys.views > 0) =>
    /\ pipe_data.out_color = render_sys.views
    /\ pipe_data.out_depth = render_sys.views

(***************************************************************************)
(* Claims about the field evaluator                                        *)
(***************************************************************************)

\* the terms of a sum that all have the same argument: the same distance and
\* the same phase (a phase byte of 255 is one whole turn, the phase of byte 0),
\* so that the magnitude of the sum is the sum of the magnitudes
InPhase(terms) ==
  \A i, j \in 1..Len(terms) :
     /\ terms[i].r2 = terms[j].r2
     /\ terms[i].phase % 255 = terms[j].phase % 255

UnitInPhase(ss) == \A i \in 1..Len(ss) : ss[i].amp = ONE_BITS /\ ss[i].phase = 0

Panicked(faults) == pc = "lib" /\ pc' = "aborted" /\ failed' \in faults

\* C22: in a call of update whose mask holds UPDATE_SLICE_SIZE and a pose or
\* camera bit, the slice quad is rebuilt before the model and the
\* model-view-projection uniforms are set: a call that ends while the quad is
\* built has set neither uniform, a call that ends in a later block has built
\* the quad and set neither uniform yet, and a call that returns has built the
\* quad for the current size and set the uniforms from the model and the
\* view-projection pair as they are at the call.
C22_QuadBeforeMatrices ==
  [][(/\ pc = "lib"
      /\ "UPDATE_SLICE_SIZE" \in update_flag
      /\ update_flag \cap {"UPDATE_SLICE_POS", "UPDATE_CAMERA_POS"} # {}) =>
       /\ Panicked({"vertex", "overflow"}) =>
            /\ rebuilt' = {}
            /\ pipe_data' = pipe_data
       /\ Panicked({"drive", "pos", "color"}) =>
            /\ "slice_quad" \in rebuilt'
            /\ rebuilt' \cap {"model", "model_view_proj"} = {}
            /\ pipe_data'.u_model = pipe_data.u_model
            /\ pipe_data'.u_model_view_proj = pipe_data.u_model_view_proj
       /\ Updated =>
            /\ {"slice_quad", "model", "model_view_proj"} \subseteq rebuilt'
            /\ pipe_data'.vertex_buffer =
                 initialize_vertex_buf_and_slice(setting).vertex_buffer
            /\ pipe_data'.u_model = model
            /\ pipe_data'.u_model_view_proj =
                 model_view_projection(model, view_projection)]_vars

\* C22: a call with UPDATE_SLICE_SIZE and UPDATE_SLICE_POS has ended in the
\* drive block, on a viewer built for other settings: the quad has the new
\* size, and the model uniform is the one of the old pose still
C22_Witness ==
  /\ pc = "aborted"
  /\ failed = "drive"
  /\ {"UPDATE_SLICE_SIZE", "UPDATE_SLICE_POS", "UPDATE_SOURCE_DRIVE"} \subseteq update_flag
  /\ setting = OtherSetting
  /\ rebuilt = {"slice_quad"}
  /\ pipe_data.vertex_buffer[3] = <<500, 4, 0>>
  /\ pipe_data.u_model # model

\* the position texture holds one texel per source, (x, y, z, unused)
PositionsBound(pd, ss) ==
  /\ pd.u_trans_pos.kind = Len(ss)
  /\ Len(pd.u_trans_pos.texels) = Len(ss)
  /\ \A i \in 1..Len(ss) :
       pd.u_trans_pos.texels[i] = <<ss[i].pos[1], ss[i].pos[2], ss[i].pos[3], 0>>

\* C23, as claimed: after a synchronisation with INIT_SOURCE the source count
\* is the length of the array and the position texture has one texel per
\* source, (x, y, z, unused), for every length of the array, 0 included.
C23_Original ==
  [][(Updated /\ "INIT_SOURCE" \in update_flag) =>
       /\ pipe_data'.u_trans_num = Len(sources)
       /\ PositionsBound(pipe_data', sources)]_vars

\* C23, amended: after a synchronisation with INIT_SOURCE the source count is
\* the length of the array, 0 included; the position texture has one texel
\* per source, (x, y, z, unused), when the array is not empty, and is the
\* texture bound before when the array is empty.
C23_PositionTexture ==
  [][(Updated /\ "INIT_SOURCE" \in update_flag) =>
       /\ pipe_data'.u_trans_num = Len(sources)
       /\ IF sources = <<>> THEN pipe_data'.u_trans_pos = pipe_data.u_trans_pos
          ELSE PositionsBound(pipe_data', sources)]_vars

\* C23: a synchronisation with INIT_SOURCE alone on an empty array has set
\* the source count to 0 and left a position texture of two texels bound
C23_Witness ==
  /\ pc = "updated"
  /\ update_flag = {"INIT_SOURCE"}
  /\ sources = <<>>
  /\ pipe_data.u_trans_num = 0
  /\ pipe_data.u_trans_pos.texels = <<<<0, 0, 0, 0>>, <<1, 0, 0, 0>>>>

\* C24: a call of update with UPDATE_SOURCE_DRIVE on an empty source array
\* skips the drive encoding: the drive texture bound before stays bound, none
\* is built, and the drive block raises no panic.
C24_EmptyDriveSkipped ==
  [][(pc = "lib" /\ "UPDATE_SOURCE_DRIVE" \in update_flag /\ sources = <<>>) =>
       /\ pipe_data'.u_trans_drive = pipe_data.u_trans_drive
       /\ "drive_texture" \notin rebuilt'
       /\ failed' # "drive"]_vars

\* C24: update has returned from a call with UPDATE_SOURCE_DRIVE alone on an
\* empty array, and the drive texture of two sources is bound still
C24_Witness ==
  /\ pc = "updated"
  /\ update_flag = {"UPDATE_SOURCE_DRIVE"}
  /\ sources = <<>>
  /\ rebuilt = {}
  /\ Len(pipe_data.u_trans_drive.texels) = 2
  /\ pipe_data.u_trans_drive.texels[2][2] = 127

\* C25: a call of update without UPDATE_COLOR_MAP in its mask, whatever the
\* drive and position bits, leaves the color map texture and the color scale
\* uniform as they were; a call with it that returns binds a texture of one
\* texel per sample of the color map, 100 of them, with the samples the viewer
\* was built with and the alpha byte of the current slice_alpha in each, and
\* sets the color scale uniform to the current color_scale.
C25_ColorMapOnItsBit ==
  [][pc = "lib" =>
       /\ "UPDATE_COLOR_MAP" \notin update_flag =>
            /\ pipe_data'.u_color_map = pipe_data.u_color_map
            /\ pipe_data'.u_color_scale = pipe_data.u_color_scale
            /\ rebuilt' \cap {"color_map_texture", "color_scale"} = {}
       /\ (Updated /\ "UPDATE_COLOR_MAP" \in update_flag) =>
            /\ pipe_data'.u_color_map.kind = 100
            /\ pipe_data'.u_color_map.rgb = color_map.colors
            /\ pipe_data'.u_color_map.alpha = AsU8(F32Mul255(setting.slice_alpha))
            /\ pipe_data'.u_color_scale = setting.color_scale
            /\ {"color_map_texture", "color_scale"} \subseteq rebuilt']_vars

\* C25: update has rebuilt the drive and position textures of two sources and
\* left the color map as built for a slice_alpha of 1.0, which the settings
\* hold no longer
C25_Witness ==
  /\ pc = "updated"
  /\ update_flag = {"INIT_SOURCE", "UPDATE_SOURCE_DRIVE"}
  /\ Len(sources) = 2
  /\ {"drive_texture", "position_texture"} \subseteq rebuilt
  /\ setting.slice_alpha = F32.half
  /\ pipe_data.u_color_map.kind = 100
  /\ pipe_data.u_color_map.alpha = 255
  /\ pipe_data.u_color_scale = F32.two

(***************************************************************************)
(* Claims about the widgets and the frame                                  *)
(***************************************************************************)

EdgesFor(w, low, high) ==
  /\ (0 <= w /\ w <= 65534) =>
       /\ low = -(w \div 2)
       /\ high = (w + 1) \div 2
       /\ high - low = w
  /\ w < 0 => (low = 0 /\ high = 0)

\* C27, as claimed: the quad rebuilt for a slice width w, 0 <= w <= 65534,
\* reaches from -(w div 2) to (w + 1) div 2, which are w apart, and likewise
\* for the height; it is made of 4 vertices and the triangles (0, 1, 2) and
\* (2, 3, 0); for a negative width or height both edges are 0.
C27_QuadExtents ==
  (pc = "updated" /\ "slice_quad" \in rebuilt) =>
    LET vb == pipe_data.vertex_buffer
    IN /\ Len(vb) = 4
       /\ slice = <<0, 1, 2, 2, 3, 0>>
       /\ vb[1][1] = vb[4][1] /\ vb[2][1] = vb[3][1]
       /\ vb[1][2] = vb[2][2] /\ vb[3][2] = vb[4][2]
       /\ EdgesFor(setting.slice_width, vb[1][1], vb[2][1])
       /\ EdgesFor(setting.slice_height, vb[1][2], vb[3][2])

(***************************************************************************)
(* Claims about the feed: the commands that are no source commands, and    *)
(* Pause and Resume                                                        *)
(***************************************************************************)

InfoKinds ==
  {"Modulation", "CtrlFlag", "Sequence", "DelayOffset", "RequestFpgaVerMsb",
   "RequestFpgaVerLsb", "RequestCpuVerMsb", "RequestCpuVerLsb"}

\* C28: a Modulation, CtrlFlag, Sequence or DelayOffset and each of the four
\* version requests leaves the mask of its batch as it was, raising no bit,
\* and leaves the source array and the amplitudes saved by Pause as they were.
C28_InfoCommandsQuiet ==
  [][(pc = "autd" /\ pc' = "autd" /\ last'.kind \in InfoKinds) =>
       /\ update_flag' = update_flag
       /\ sources' = sources
       /\ last_amp' = last_amp]_vars

\* C28: a Modulation, alone in its batch, has been applied while a source is
\* driven and an amplitude is saved: the mask is empty
C28_Witness ==
  /\ pc = "autd"
  /\ last.kind = "Modulation"
  /\ modulation = "Some"
  /\ update_flag = UpdateFlagEmpty
  /\ Len(sources) = 1
  /\ sources[1].amp = GainAmp(85)
  /\ last_amp = <<GainAmp(85)>>

\* C29, as claimed: after two or more Pauses in a row and the Resume that
\* follows them, every source has the amplitude it had before the first of
\* the Pauses.
C29_PauseIdempotent == paused.stage = "resumed" => Amps(sources) = paused.first

\* C30: a Resume that finds no Pause applied since the last Resume, or since
\* the application began, leaves the amplitude and the phase of every source
\* as they were; and after every Resume the saved amplitudes are empty.
C30_SpareResume ==
  [][(pc = "autd" /\ pc' = "autd" /\ last'.kind = "Resume") =>
       /\ last_amp' = <<>>
       /\ ~paused.pending =>
            /\ Amps(sources') = Amps(sources)
            /\ Phases(sources') = Phases(sources)]_vars

\* C30: a Resume has found no Pause pending on two sources, one of them
\* driven, and has left the drive in place
C30_Witness ==
  /\ last.kind = "Resume"
  /\ paused.stage = "unpaused"
  /\ last_amp = <<>>
  /\ Len(sources) = 2
  /\ sources[1].amp = GainAmp(85)
  /\ sources[1].phase = GainPhase(5)
  /\ sources[2].amp = 0

\* C31, as claimed: whenever the saved amplitudes last_amp are not empty, there
\* is one of them per source of the current array.
C31_SnapshotFitsArray == last_amp # <<>> => Len(last_amp) = Len(sources)

\* C32: a Pause and a Resume leave the phase of every source as it was; and
\* after a Pause, Gains alone and then a Resume, every source has the
\* amplitude it had before the Pause, whatever the Gains set.
C32_PauseKeepsPhase ==
  [][(pc = "autd" /\ pc' = "autd") =>
       /\ last'.kind \in {"Pause", "Resume"} => Phases(sources') = Phases(sources)
       /\ paused'.stage = "regained" => Amps(sources') = paused'.amps]_vars

\* C32: a source driven at one amplitude was paused, a Gain gave it another
\* phase while it was silent, and the Resume has been applied
C32_Witness ==
  /\ last.kind = "Resume"
  /\ paused.stage = "regained"
  /\ Len(sources) = 1
  /\ paused.amps = <<GainAmp(85)>>
  /\ sources[1].amp = GainAmp(85)
  /\ sources[1].phase = GainPhase(5)

\* C33: whenever a frame is drawn, the source count given to the shader is at
\* most the number of texels of the position texture and of the drive texture
\* that are bound.
C33_CountWithinTextures ==
  pc = "draw" =>
    /\ pipe_data.u_trans_num <= Len(pipe_data.u_trans_pos.texels)
    /\ pipe_data.u_trans_num <= pipe_data.u_trans_pos.kind
    /\ pipe_data.u_trans_num <= Len(pipe_data.u_trans_drive.texels)
    /\ pipe_data.u_trans_num <= pipe_data.u_trans_drive.kind

\* C33: a frame is about to be drawn in which a Geometries command emptied an
\* array of two sources: the count is 0 and the two textures keep two texels
C33_Witness ==
  /\ pc = "draw"
  /\ "INIT_SOURCE" \in update_flag
  /\ "source_count" \in rebuilt
  /\ sources = <<>>
  /\ pipe_data.u_trans_num = 0
  /\ Len(pipe_data.u_trans_pos.texels) = 2
  /\ Len(pipe_data.u_trans_drive.texels) = 2

\* C34: after every step, the model matrix has the position last given to
\* move_to as its translation row and the rotation of the angles last given
\* to rotate_to as its rotation part; a step that calls only move_to leaves the
\* rotation part as it was, and one that calls only rotate_to the translation.
C34_PoseIndependent ==
  [][/\ model'.trans = setting'.slice_pos
     /\ model'.rot = <<"euler", setting'.slice_angle>>
     /\ setting'.slice_pos = setting.slice_pos => model'.trans = model.trans
     /\ setting'.slice_angle = setting.slice_angle => model'.rot = model.rot]_vars

\* C34: the slice was moved to x = 10 and then turned by PI/2 about x, or
\* turned and then moved: the matrix holds both
C34_Witness ==
  /\ pc = "draw"
  /\ setting.slice_pos[1] = 10
  /\ setting.slice_angle[1] = "PI/2"
  /\ model.trans[1] = 10
  /\ model.rot = <<"euler", setting.slice_angle>>
  /\ setting.slice_pos # LoadedSetting.slice_pos

\* what handle_autd logs for a command of each kind that logs
Logged(kind) ==
  CASE kind = "Geometries" -> "geometry"
    [] kind = "Gain" -> "gain"
    [] kind = "Clear" -> "clear"
    [] kind = "Pause" -> "pause"
    [] kind = "Resume" -> "resume"
    [] kind = "Modulation" -> "receive modulation"
    [] kind = "RequestFpgaVerMsb" -> "req fpga ver msb"
    [] kind = "RequestFpgaVerLsb" -> "req fpga ver lsb"
    [] kind = "RequestCpuVerMsb" -> "req cpu ver lsb"
    [] kind = "RequestCpuVerLsb" -> "req cpu ver lsb"
    [] kind = "Sequence" -> "receive sequence"
    [] kind = "DelayOffset" -> "receive delay offset"

\* the command applied in this step is one whose arm calls log
LogCall == pc = "autd" /\ pc' = "autd" /\ last'.kind # "CtrlFlag"

\* the last n entries of buf
LastN(buf, n) == SubSeq(buf, Len(buf) - n + 1, Len(buf))

\* the buffer after the call is the newest entries of the buffer before it with
\* the message behind them, as many as log_max allows
KeepsNewest ==
  LET all == Append(log_buf, Logged(last'.kind))
  IN /\ Len(log_buf') <= setting.log_max
     /\ log_buf' = LastN(all, Min(Len(all), setting.log_max))

\* C35, as claimed: with logging enabled, after a call of log the buffer holds
\* at most log_max entries, the oldest were dropped first and the message just
\* logged is its last entry; with logging disabled the buffer is as it was.
C35_Original ==
  [][LogCall =>
       IF setting.log_enable
       THEN /\ KeepsNewest
            /\ log_buf' # <<>>
            /\ log_buf'[Len(log_buf')] = Logged(last'.kind)
       ELSE log_buf' = log_buf]_vars

\* C35: with logging enabled, after a call of log the buffer holds at most
\* log_max entries, the oldest were dropped first, and the message just logged
\* is its last entry unless log_max is 0, when the buffer is empty; with
\* logging disabled the buffer is as it was.
C35_LogBounded ==
  [][LogCall =>
       IF setting.log_enable
       THEN /\ KeepsNewest
            /\ IF setting.log_max = 0 THEN log_buf' = <<>>
               ELSE /\ log_buf' # <<>>
                    /\ log_buf'[Len(log_buf')] = Logged(last'.kind)
       ELSE log_buf' = log_buf]_vars

\* C35: with logging enabled and log_max 2, a Pause was logged behind a
\* Modulation and the buffer is full
C35_Witness ==
  /\ pc = "autd"
  /\ setting.log_enable
  /\ setting.log_max = 2
  /\ last.kind = "Pause"
  /\ log_buf = <<"receive modulation", "pause">>
  /\ update_flag = {"UPDATE_SOURCE_DRIVE"}
====
